---- MODULE Spec2Model ----
(***************************************************************************)
(* Model of the AIOps diagnostic agent.                                    *)
(*                                                                         *)
(* Two entry points of the repository run the reason-act-observe loop:     *)
(*   - aiops_agent_monitor/main.py: the deployed agent, a LangGraph        *)
(*     StateGraph llm_agent_node -> {tool_executor, finalize_diagnosis}    *)
(*     driven by the POST /diagnose_alert handler;                         *)
(*   - agent-reasoning/main.py: the console ReAct loop with simulated      *)
(*     tools and the MAX_TURNS budget.                                     *)
(* The variable prog says which of the two a behaviour runs.               *)
(***************************************************************************)
EXTENDS Integers, Sequences, FiniteSets, TLC

(***************************************************************************)
(* Bounds of the model.                                                    *)
(***************************************************************************)
\* Supersteps the graph engine runs before it raises GraphRecursionError.
\* diagnose_alert calls invoke() without a config, so the engine's default
\* applies (25 in LangGraph); the model keeps the mechanism with a smaller
\* limit, large enough for more than MAX_TURNS reasoning steps.
RecursionLimit == 12

\* How far a run may depart from the plain one, in which every reasoning
\* output requests PrometheusQuery over 5 minutes and Prometheus answers
\* with data.  Each of these costs one: another tool name (registered or
\* not), another time range, a second tool call in the same output, a
\* backing service that does not answer with data, a reply of the console
\* loop other than the plain one.
MaxVariations == 2

\* Runs of the Finalizer on one state, where a caller runs it again.
MaxFinalizerCalls == 2

\* Requests the service receives one after the other.
MaxRequests == 2

\* Entries Loki may answer one query with.
MaxLogLines == 12

\* Turns of a request served side by side with another that may end in a
\* tool call.
MaxConcurrentTurns == 1

\* Requests the classifier API counts in a behaviour.
MaxServiceRequests == 2

\* Items in one evaluation request.
MaxItems == 2

(***************************************************************************)
(* Program constants.                                                      *)
(***************************************************************************)
\* agent-reasoning/main.py: MAX_TURNS = 5
MAX_TURNS == 5

\* mlops_tools.py: the tools registered with the deployed agent.
deployed_diagnostic_tools == {"PrometheusQuery", "LokiLogSearch", "GrafanaDashboardLink"}

\* A name the reasoning backend may request that matches no registered tool
\* (names are matched exactly, so a different case is a different name).
UnknownToolNames == {"prometheusquery"}

ToolNames == deployed_diagnostic_tools \cup UnknownToolNames

\* Values of time_range_minutes a request may carry (the schema accepts any int).
TimeRanges == {-1, 0, 5}

\* What the backing service of a network adapter does with one request:
\* answers with series/lines, answers with an empty result, cannot be
\* reached (or times out), or answers with an HTTP error status.
BackendOutcomes == {"data", "empty", "unreachable", "http_error"}

\* Alerts a diagnosis request may describe.
AlertInfos == {"HighRMSE"}

\* Alerts a request that follows another may describe.
LaterAlertInfos == AlertInfos \cup {"DataDrift"}

VARIABLES
    prog,             \* "monitor" (aiops_agent_monitor) or "reasoning" (agent-reasoning)
    node,             \* control position: the graph node to run next, or the loop position
    messages,         \* AgentState.messages / the messages list of the console loop
    alert_info,       \* AgentState.alert_info ("" while no request was received)
    final_result,     \* AgentState.final_result: None until set, then Some(text)
    step,             \* supersteps the graph engine has run in this invocation
    turn_count,       \* reasoning-backend invocations of the loop so far
    last_dispatch,    \* what the latest tool_executor invocation did, one record per call
    finalizer_calls,  \* reasoning-backend calls made by finalize_diagnosis_node
    response,         \* what diagnose_alert answered
    variations,       \* departures from the plain run so far (model bookkeeping)
    prometheus_data,  \* AgentState.prometheus_data
    loki_logs,        \* AgentState.loki_logs
    grafana_link,     \* AgentState.grafana_link
    finalizer_input,  \* the prompt of the Finalizer's latest backend call: None or Some(text)
    metrics,          \* the module-level Prometheus counters of the agent service
    runs,             \* the AgentStates of two requests served side by side
    adapter_call,     \* the latest direct call of an adapter: its arguments and its result
    executor,         \* the tool calls ToolNode's executor has started and finished
    GROQ_API_KEY,     \* the environment variable read at startup: None or Some(text)
    service           \* the side services: the latest request, its answer, their metrics

vars == <<prog, node, messages, alert_info, final_result, step, turn_count,
          last_dispatch, finalizer_calls, response, variations,
          prometheus_data, loki_logs, grafana_link, finalizer_input, metrics, runs, adapter_call, executor, GROQ_API_KEY, service>>

(***************************************************************************)
(* Texts.  A text (a message content, a tool result) is a sequence of      *)
(* tokens; Python's  `marker in text`  is the occurrence of a token,       *)
(* text.find(marker) its first position, an f-string the concatenation.    *)
(***************************************************************************)
Contains(text, marker) == \E i \in 1..Len(text) : text[i] = marker

\* str.find: the 0-based position of the first occurrence, -1 when absent.
Find(text, marker) ==
    IF Contains(text, marker)
    THEN (CHOOSE i \in 1..Len(text) :
              text[i] = marker /\ \A j \in 1..(i - 1) : text[j] # marker) - 1
    ELSE -1

\* text[start:end] with 0-based start and exclusive end, as Python slices.
Slice(text, start, end) ==
    IF end <= start THEN <<>> ELSE SubSeq(text, start + 1, end)

(***************************************************************************)
(* Messages.                                                               *)
(***************************************************************************)
\* An optional value: None, or Some(v).
None == <<>>

Some(v) == <<v>>

HumanMessage(c) == [type |-> "human", content |-> c, tool_calls |-> <<>>, name |-> ""]

SystemMessage(c) == [type |-> "system", content |-> c, tool_calls |-> <<>>, name |-> ""]

AIMessage(c, calls) == [type |-> "ai", content |-> c, tool_calls |-> calls, name |-> ""]

ToolMessage(c, n) == [type |-> "tool", content |-> c, tool_calls |-> <<>>, name |-> n]

\* A channel without a reducer: the update replaces the value.
add_messages_overwrite(left, right) == right

\* state.py add_messages: the reducer of AgentState.messages.
add_messages(left, right) == left \o right

(***************************************************************************)
(* Capability adapters (tools/mlops_tools.py).  Each returns the text the  *)
(* tool returns and whether it issued an HTTP request.                     *)
(***************************************************************************)
ValidationText == <<"An unexpected error occurred:", "time_range_minutes must be positive.">>

StepValidationText == <<"An unexpected error occurred:", "step_seconds must be positive.">>

\* PrometheusQuery without its check of step_seconds.
PrometheusQueryStepUnchecked(time_range_minutes, step_seconds, backend) ==
    IF time_range_minutes <= 0
    THEN [content |-> ValidationText, http |-> FALSE]
    ELSE IF backend \in {"unreachable", "http_error"}
    THEN [content |-> <<"Failed to query Prometheus:", backend>>, http |-> TRUE]
    ELSE IF backend = "data"
    THEN [content |-> <<"Prometheus query results:", "series">>, http |-> TRUE]
    ELSE [content |-> <<"Prometheus query: No data found for the given query and time range.">>,
          http |-> TRUE]

PrometheusQuery(time_range_minutes, step_seconds, backend) ==
    IF time_range_minutes <= 0
    THEN [content |-> ValidationText, http |-> FALSE]
    ELSE IF step_seconds <= 0
    THEN [content |-> StepValidationText, http |-> FALSE]
    ELSE IF backend \in {"unreachable", "http_error"}
    THEN [content |-> <<"Failed to query Prometheus:", backend>>, http |-> TRUE]
    ELSE IF backend = "data"
    THEN [content |-> <<"Prometheus query results:", "series">>, http |-> TRUE]
    ELSE [content |-> <<"Prometheus query: No data found for the given query and time range.">>,
          http |-> TRUE]

\* The limit LokiLogSearch works with: a value outside 1..100 is replaced.
effective_limit(limit) == IF limit <= 0 \/ limit > 100 THEN 10 ELSE limit

\* formatted_logs[:limit] for a positive limit.
first_lines(formatted_logs, limit) ==
    SubSeq(formatted_logs, 1, IF limit < Len(formatted_logs) THEN limit
                              ELSE Len(formatted_logs))

\* LokiLogSearch that reports a failed request as a search without matches.
LokiLogSearchHidesFailure(time_range_minutes, limit, backend, log_lines) ==
    IF time_range_minutes <= 0
    THEN [content |-> ValidationText, http |-> FALSE]
    ELSE IF backend = "data"
    THEN [content |-> <<"Loki log search results:">>
                          \o first_lines(log_lines, effective_limit(limit)),
          http |-> TRUE]
    ELSE [content |-> <<"Loki log search: No logs found for the given query and time range.">>,
          http |-> TRUE]

\* LokiLogSearch that returns every line the backend answered with.
LokiLogSearchUntruncated(time_range_minutes, limit, backend, log_lines) ==
    IF time_range_minutes <= 0
    THEN [content |-> ValidationText, http |-> FALSE]
    ELSE IF backend \in {"unreachable", "http_error"}
    THEN [content |-> <<"Failed to query Loki:", backend>>, http |-> TRUE]
    ELSE IF backend = "data"
    THEN [content |-> <<"Loki log search results:">> \o log_lines, http |-> TRUE]
    ELSE [content |-> <<"Loki log search: No logs found for the given query and time range.">>,
          http |-> TRUE]

\* log_lines are the entries of the streams the backend answers with when
\* it has matches (backend = "data").
LokiLogSearch(time_range_minutes, limit, backend, log_lines) ==
    IF time_range_minutes <= 0
    THEN [content |-> ValidationText, http |-> FALSE]
    ELSE IF backend \in {"unreachable", "http_error"}
    THEN [content |-> <<"Failed to query Loki:", backend>>, http |-> TRUE]
    ELSE IF backend = "data"
    THEN [content |-> <<"Loki log search results:">>
                          \o first_lines(log_lines, effective_limit(limit)),
          http |-> TRUE]
    ELSE [content |-> <<"Loki log search: No logs found for the given query and time range.">>,
          http |-> TRUE]

\* GrafanaDashboardLink that asks Grafana for the dashboard before linking it.
GrafanaDashboardLinkLooksUp(time_range_minutes) ==
    IF time_range_minutes <= 0
    THEN [content |-> ValidationText, http |-> FALSE]
    ELSE [content |-> <<"Grafana Dashboard Link:", "url">>, http |-> TRUE]

\* GrafanaDashboardLink without its check of time_range_minutes.
GrafanaDashboardLinkUnchecked(time_range_minutes) ==
    [content |-> <<"Grafana Dashboard Link:", "url">>, http |-> FALSE]

GrafanaDashboardLink(time_range_minutes) ==
    IF time_range_minutes <= 0
    THEN [content |-> ValidationText, http |-> FALSE]
    ELSE [content |-> <<"Grafana Dashboard Link:", "url">>, http |-> FALSE]

(***************************************************************************)
(* Capability dispatch of the deployed agent:                              *)
(* ToolNode(deployed_diagnostic_tools), the graph's tool_executor node.    *)
(* A tool call is [name, time_range_minutes]; the other arguments keep     *)
(* their schema defaults.                                                    *)
(***************************************************************************)
ToolCalls == [name : ToolNames, time_range_minutes : TimeRanges]

\* PrometheusQueryInput.step_seconds: Field(default=30)
DefaultStepSeconds == 30

\* LokiLogSearchInput.limit: Field(default=10)
DefaultLimit == 10

\* The entries Loki answers a tool call of the agent with, when it has matches.
DefaultLogLines == <<"lines">>

UnknownToolText(name) == <<"Error:", name, "is not a valid tool, try one of", "[PrometheusQuery, LokiLogSearch, GrafanaDashboardLink]">>

\* The adapter a registered name stands for, run on the call's arguments.
InvokeTool(call, backend) ==
    CASE call.name = "PrometheusQuery" ->
            PrometheusQuery(call.time_range_minutes, DefaultStepSeconds, backend)
      [] call.name = "LokiLogSearch" ->
            LokiLogSearch(call.time_range_minutes, DefaultLimit, backend, DefaultLogLines)
      [] call.name = "GrafanaDashboardLink" ->
            GrafanaDashboardLink(call.time_range_minutes)

\* RunToolCall without the lookup by name: a name outside the registry is
\* served by the first registered tool.
RunToolCallNoLookup(call, backend) ==
    LET r == IF call.name \in deployed_diagnostic_tools
             THEN InvokeTool(call, backend)
             ELSE PrometheusQuery(call.time_range_minutes, DefaultStepSeconds, backend)
    IN  [msg |-> ToolMessage(r.content, call.name), adapter |-> TRUE, http |-> r.http,
         backend |-> backend]

\* One tool call of the latest AIMessage: the ToolMessage it yields, whether
\* an adapter ran, whether that adapter issued an HTTP request, and what the
\* backing service did with it.
RunToolCall(call, backend) ==
    IF call.name \notin deployed_diagnostic_tools
    THEN [msg |-> ToolMessage(UnknownToolText(call.name), call.name),
          adapter |-> FALSE, http |-> FALSE, backend |-> backend]
    ELSE LET r == InvokeTool(call, backend)
         IN  [msg |-> ToolMessage(r.content, call.name),
              adapter |-> TRUE, http |-> r.http, backend |-> backend]

\* ToolNode runs every tool call of the latest AIMessage and returns one
\* ToolMessage per call, in the order of the calls.
ToolNode(calls, backends) ==
    [i \in 1..Len(calls) |-> RunToolCall(calls[i], backends[i])]

\* route_agent_decide without its test of tool_calls: every assistant entry
\* is sent to the tool executor.
route_agent_decide_any_ai(msgs) ==
    IF Len(msgs) > 0 /\ msgs[Len(msgs)].type = "ai"
    THEN "tool_executor"
    ELSE "finalize_diagnosis"

\* route_agent_decide: the conditional edge after llm_agent_node.
route_agent_decide(msgs) ==
    IF /\ Len(msgs) > 0
       /\ msgs[Len(msgs)].type = "ai"
       /\ Len(msgs[Len(msgs)].tool_calls) > 0
    THEN "tool_executor"
    ELSE "finalize_diagnosis"

\* finalize_diagnosis_node returning the history without the final message.
finalize_diagnosis_node_result_only(msgs, final_msg) ==
    [messages |-> msgs, final_result |-> final_msg]

\* finalize_diagnosis_node: the update it returns, given the reply of its
\* reasoning-backend call.
finalize_diagnosis_node(msgs, final_msg) ==
    [messages |-> msgs \o <<AIMessage(final_msg, <<>>)>>, final_result |-> final_msg]

\* The HumanMessage of finalize_diagnosis_node's prompt: the alert and the
\* three evidence fields of the state.
diagnosis_prompt(alert, prometheus, loki, grafana) ==
    <<"Alert:", alert, "Prometheus data:">> \o prometheus
        \o <<"Loki logs:">> \o loki
        \o <<"Grafana Link:">> \o grafana
        \o <<"Based on this, what is your diagnosis and proposed solution?">>

(***************************************************************************)
(* The metrics of the agent service: module-level counters, one set for    *)
(* the process.  The histogram is kept as its number of observations.      *)
(***************************************************************************)
DiagnosisOutcomes == {"escalated", "solution_proposed", "info", "failed"}

NoMetrics ==
    [API_REQUEST_COUNT |-> 0,
     API_REQUEST_LATENCY_SECONDS |-> 0,
     AGENT_RUN_COUNT |-> 0,
     AGENT_ERROR_COUNT |-> 0,
     AGENT_DIAGNOSIS_COUNT |-> [o \in DiagnosisOutcomes |-> 0]]

\* The middleware counts the request, diagnose_alert counts the run.
RequestReceived(m) ==
    [m EXCEPT !.API_REQUEST_COUNT = @ + 1, !.AGENT_RUN_COUNT = @ + 1]

\* RequestCrashed with the latency observed on the way out of the try block
\* only, not in a finally clause.
RequestCrashedLatencyLost(m) ==
    [m EXCEPT !.API_REQUEST_COUNT = @ + 1,
              !.AGENT_RUN_COUNT = @ + 1,
              !.AGENT_ERROR_COUNT = @ + 1]

\* The request is counted, then diagnose_alert raises outside its try block:
\* the exception passes through the middleware, which counts the error and
\* observes the latency.
RequestCrashed(m) ==
    [m EXCEPT !.API_REQUEST_COUNT = @ + 1,
              !.AGENT_RUN_COUNT = @ + 1,
              !.AGENT_ERROR_COUNT = @ + 1,
              !.API_REQUEST_LATENCY_SECONDS = @ + 1]

\* The outcome label diagnose_alert derives from the final state.
DiagnosisOutcome(agent_final_message, diagnosis_outcome) ==
    IF Contains(agent_final_message, "Critical") \/ Contains(diagnosis_outcome, "escalated")
    THEN "escalated"
    ELSE IF Contains(agent_final_message, "Solution")
            \/ Contains(diagnosis_outcome, "solution_proposed")
    THEN "solution_proposed"
    ELSE "info"

\* RunSucceeded on a set of counters created for the request.
RunSucceededOnFreshMetrics(m, outcome) ==
    [NoMetrics EXCEPT !.AGENT_DIAGNOSIS_COUNT[outcome] = 1,
                      !.API_REQUEST_LATENCY_SECONDS = 1]

\* diagnose_alert returns: the outcome is counted, the middleware observes
\* the latency.
RunSucceeded(m, outcome) ==
    [m EXCEPT !.AGENT_DIAGNOSIS_COUNT[outcome] = @ + 1,
              !.API_REQUEST_LATENCY_SECONDS = @ + 1]

\* diagnose_alert's except branch, then the middleware's finally.
RunFailed(m) ==
    [m EXCEPT !.AGENT_ERROR_COUNT = @ + 1,
              !.AGENT_DIAGNOSIS_COUNT["failed"] = @ + 1,
              !.API_REQUEST_LATENCY_SECONDS = @ + 1]

(***************************************************************************)
(* What the reasoning backend may answer.                                  *)
(***************************************************************************)
\* Replies of llm_agent_node's call: a text with no tool call, one tool
\* call, or two tool calls in the same message.
PlainReply == AIMessage(<<"The model drifted">>, <<>>)

ToolCallReplies ==
    {AIMessage(<<>>, <<c>>) : c \in ToolCalls}
        \cup {AIMessage(<<>>, <<c, d>>) : c \in ToolCalls, d \in ToolCalls}

\* Replies of the Finalizer's call (the content of the response object).
FinalContents == {<<>>, <<"Critical", "drift">>, <<"Solution", "retrain">>, <<"All nominal">>}

(***************************************************************************)
(* Bookkeeping of the departures from the plain run.                       *)
(***************************************************************************)
CallCost(call) ==
    (IF call.name # "PrometheusQuery" THEN 1 ELSE 0)
        + (IF call.time_range_minutes # 5 THEN 1 ELSE 0)

ReplyCost(reply) ==
    LET calls == reply.tool_calls
    IN  CASE Len(calls) = 0 -> 0
          [] Len(calls) = 1 -> CallCost(calls[1])
          [] OTHER -> 1 + CallCost(calls[1]) + CallCost(calls[2])

\* A backing service is consulted only by a call that reaches the network;
\* for any other call the outcome is left at "data".
ReachesNetwork(call) == RunToolCall(call, "data").http

BackendsFor(calls) ==
    {b \in [1..Len(calls) -> BackendOutcomes] :
        \A i \in 1..Len(calls) : ~ReachesNetwork(calls[i]) => b[i] = "data"}

BackendCost(backends) ==
    Cardinality({i \in DOMAIN backends : backends[i] # "data"})

(***************************************************************************)
(* Initial state: the process is up, no request has been received.         *)
(***************************************************************************)
NoResponse == [status |-> "none", code |-> 0, agent_diagnosis |-> <<>>]

ErrorResponse == [status |-> "error", code |-> 500, agent_diagnosis |-> <<>>]

\* No request is being served side by side with another.
NoRuns == <<>>

\* ToolNode's executor with no tool call handed to it.
IdleExecutor ==
    [started |-> {}, finished |-> {}, backends |-> [i \in 1..2 |-> "data"]]

\* Status labels of the classifier API's request metrics.
StatusCodes == {"200", "400", "500"}

\* The endpoints of the classifier API that count their requests.
ApiEndpoints == {"/predict", "/evaluate"}

\* No request the side services have seen.
NoServiceRequest ==
    [endpoint |-> "", time_range_minutes |-> 0, step_seconds |-> 0, limit |-> 0,
     backend |-> "", text |-> <<>>, items |-> <<>>]

\* An answer of a side service: the HTTP status and the body; an answer of
\* /evaluate carries the accuracy and the number of evaluated items.
Answer(code, body) ==
    [code |-> code, body |-> body, accuracy |-> None, evaluated_items |-> 0]

\* The side services (gateway, tool services, classifier API) before their
\* first request: nothing answered, every metric of the API's registry at its
\* initial value.
IdleService ==
    [request |-> NoServiceRequest,
     response |-> Answer(0, <<>>),
     api_requests_total |-> [e \in ApiEndpoints |-> [c \in StatusCodes |-> 0]],
     api_request_duration_seconds |-> [e \in ApiEndpoints |-> [c \in StatusCodes |-> 0]],
     classifier_calls |-> 0,
     model_accuracy_score |-> None,
     model_f1_score |-> None,
     true_labels |-> <<>>,
     predicted_labels |-> <<>>]

\* No adapter has been called directly.
NoAdapterCall ==
    [name |-> "", time_range_minutes |-> 0, step_seconds |-> 0, limit |-> 0,
     backend |-> "data", log_lines |-> <<>>, content |-> <<>>, http |-> FALSE]

\* The AgentState diagnose_alert builds for one request, with the position
\* of its graph run, its answer, and the entries the run itself produced.
InitialState(a) ==
    [node |-> "llm_agent_node",
     messages |-> <<HumanMessage(<<"Diagnose this alert:", a>>)>>,
     alert_info |-> a,
     final_result |-> None,
     turns |-> 0,
     response |-> NoResponse,
     produced |-> <<HumanMessage(<<"Diagnose this alert:", a>>)>>]

IdleRun ==
    [node |-> "idle", messages |-> <<>>, alert_info |-> "", final_result |-> None,
     turns |-> 0, response |-> NoResponse, produced |-> <<>>]

Init ==
    /\ prog \in {"monitor", "reasoning"}
    /\ node = "idle"
    /\ messages = <<>>
    /\ alert_info = ""
    /\ final_result = None
    /\ step = 0
    /\ turn_count = 0
    /\ last_dispatch = <<>>
    /\ finalizer_calls = 0
    /\ response = NoResponse
    /\ variations = 0
    /\ prometheus_data = <<>>
    /\ loki_logs = <<>>
    /\ grafana_link = <<>>
    /\ finalizer_input = None
    /\ metrics = NoMetrics
    /\ runs = NoRuns
    /\ adapter_call = NoAdapterCall
    /\ executor = IdleExecutor
    /\ GROQ_API_KEY = Some("gsk")
    /\ service = IdleService

(***************************************************************************)
(* The deployed agent: POST /diagnose_alert and the graph it invokes.      *)
(***************************************************************************)
\* diagnose_alert up to the call of diagnostic_agent_instance.invoke: the
\* initial AgentState; the graph's entry point is llm_agent_node.
DiagnoseAlert ==
    /\ prog = "monitor"
    /\ node = "idle"
    /\ \E a \in AlertInfos :
          /\ alert_info' = a
          /\ messages' = <<HumanMessage(<<"Diagnose this alert:", a>>)>>
    /\ final_result' = None
    /\ step' = 0
    /\ node' = "llm_agent_node"
    /\ UNCHANGED <<prog, turn_count, last_dispatch, finalizer_calls, response, variations>>
    /\ prometheus_data' = <<>>
    /\ loki_logs' = <<>>
    /\ grafana_link' = <<>>
    /\ metrics' = RequestReceived(metrics)
    /\ UNCHANGED <<finalizer_input, runs, adapter_call, executor, GROQ_API_KEY, service>>

\* llm_agent_node returning an update that also clears alert_info.
LlmAgentNodeUpdatesAlert ==
    /\ prog = "monitor"
    /\ node = "llm_agent_node"
    /\ step < RecursionLimit
    /\ \E result \in {PlainReply} \cup ToolCallReplies :
          /\ variations + ReplyCost(result) <= MaxVariations
          /\ variations' = variations + ReplyCost(result)
          /\ messages' = add_messages(messages, <<result>>)
    /\ alert_info' = ""
    /\ node' = route_agent_decide(messages')
    /\ turn_count' = turn_count + 1
    /\ step' = step + 1
    /\ UNCHANGED <<prog, final_result, last_dispatch, finalizer_calls, response>>
    /\ UNCHANGED <<prometheus_data, loki_logs, grafana_link, finalizer_input, metrics, runs, adapter_call, executor, GROQ_API_KEY, service>>

\* llm_agent_node returns the backend's reply; the reducer appends it and
\* the conditional edge picks the next node.
LlmAgentNode ==
    /\ prog = "monitor"
    /\ node = "llm_agent_node"
    /\ step < RecursionLimit
    /\ \E result \in {PlainReply} \cup ToolCallReplies :
          /\ variations + ReplyCost(result) <= MaxVariations
          /\ variations' = variations + ReplyCost(result)
          /\ messages' = add_messages(messages, <<result>>)
    /\ node' = route_agent_decide(messages')
    /\ turn_count' = turn_count + 1
    /\ step' = step + 1
    /\ UNCHANGED <<prog, alert_info, final_result, last_dispatch, finalizer_calls, response>>
    /\ UNCHANGED <<prometheus_data, loki_logs, grafana_link, finalizer_input, metrics, runs, adapter_call, executor, GROQ_API_KEY, service>>

\* diagnose_alert on a payload whose "alerts" list is empty (or whose first
\* alert is not an object): reading the alert's labels raises before the
\* try block, after the run was counted.  No AgentState is built, the
\* except branch does not run, and the server answers 500.
DiagnoseAlertRaises ==
    /\ prog = "monitor"
    /\ node = "idle"
    /\ node' = "failed"
    /\ response' = ErrorResponse
    /\ metrics' = RequestCrashed(metrics)
    /\ UNCHANGED <<messages, alert_info, final_result, step, turn_count, last_dispatch,
                   finalizer_calls, variations>>
    /\ UNCHANGED <<prog, prometheus_data, loki_logs, grafana_link, finalizer_input, runs,
                   adapter_call, executor, GROQ_API_KEY, service>>

\* The backend call of llm_agent_node raises: nothing catches it inside the
\* graph, invoke raises, and diagnose_alert's except branch answers 500.
LlmAgentNodeRaises ==
    /\ prog = "monitor"
    /\ node = "llm_agent_node"
    /\ step < RecursionLimit
    /\ turn_count' = turn_count + 1
    /\ node' = "failed"
    /\ response' = ErrorResponse
    /\ UNCHANGED <<prog, messages, alert_info, final_result, step, last_dispatch,
                   finalizer_calls, variations>>
    /\ metrics' = RunFailed(metrics)
    /\ UNCHANGED <<prometheus_data, loki_logs, grafana_link, finalizer_input, runs, adapter_call, executor, GROQ_API_KEY, service>>

\* tool_executor: every tool call of the latest message is run and its
\* ToolMessage appended; the edge leads back to llm_agent_node.
ToolExecutor ==
    /\ prog = "monitor"
    /\ node = "tool_executor"
    /\ step < RecursionLimit
    /\ LET calls == messages[Len(messages)].tool_calls
       IN  \E backends \in BackendsFor(calls) :
              /\ variations + BackendCost(backends) <= MaxVariations
              /\ variations' = variations + BackendCost(backends)
              /\ last_dispatch' = ToolNode(calls, backends)
              /\ messages' = add_messages(messages,
                                 [i \in 1..Len(calls) |-> last_dispatch'[i].msg])
    /\ node' = "llm_agent_node"
    /\ step' = step + 1
    /\ UNCHANGED <<prog, alert_info, final_result, turn_count, finalizer_calls, response>>
    /\ UNCHANGED <<prometheus_data, loki_logs, grafana_link, finalizer_input, metrics, runs, adapter_call, executor, GROQ_API_KEY, service>>

\* finalize_diagnosis: one backend call; the update sets final_result and
\* hands the whole list plus the final message to the reducer.  The node is
\* the graph's finish point.
FinalizeDiagnosis ==
    /\ prog = "monitor"
    /\ node = "finalize_diagnosis"
    /\ step < RecursionLimit
    /\ \E final_msg \in FinalContents :
          LET update == finalize_diagnosis_node(messages, final_msg)
          IN  /\ messages' = add_messages(messages, update.messages)
              /\ final_result' = Some(update.final_result)
    /\ finalizer_calls' = finalizer_calls + 1
    /\ node' = "END"
    /\ step' = step + 1
    /\ UNCHANGED <<prog, alert_info, turn_count, last_dispatch, response, variations>>
    /\ finalizer_input' = Some(diagnosis_prompt(alert_info, prometheus_data,
                                                 loki_logs, grafana_link))
    /\ UNCHANGED <<prometheus_data, loki_logs, grafana_link, metrics, runs, adapter_call, executor, GROQ_API_KEY, service>>

\* The backend call of finalize_diagnosis_node raises: invoke raises and
\* diagnose_alert's except branch answers 500.
FinalizeDiagnosisRaises ==
    /\ prog = "monitor"
    /\ node = "finalize_diagnosis"
    /\ step < RecursionLimit
    /\ finalizer_calls' = finalizer_calls + 1
    /\ node' = "failed"
    /\ response' = ErrorResponse
    /\ UNCHANGED <<prog, messages, alert_info, final_result, step, turn_count,
                   last_dispatch, variations>>
    /\ finalizer_input' = Some(diagnosis_prompt(alert_info, prometheus_data,
                                                 loki_logs, grafana_link))
    /\ metrics' = RunFailed(metrics)
    /\ UNCHANGED <<prometheus_data, loki_logs, grafana_link, runs, adapter_call, executor, GROQ_API_KEY, service>>

\* The engine has run its limit of supersteps and a node is still due:
\* invoke raises GraphRecursionError, diagnose_alert's except branch answers 500.
GraphRecursionError ==
    /\ prog = "monitor"
    /\ node \in {"llm_agent_node", "tool_executor", "finalize_diagnosis"}
    /\ step >= RecursionLimit
    /\ node' = "failed"
    /\ response' = ErrorResponse
    /\ UNCHANGED <<prog, messages, alert_info, final_result, step, turn_count,
                   last_dispatch, finalizer_calls, variations>>
    /\ metrics' = RunFailed(metrics)
    /\ UNCHANGED <<prometheus_data, loki_logs, grafana_link, finalizer_input, runs, adapter_call, executor, GROQ_API_KEY, service>>

\* diagnose_alert after invoke returned: the answer carries the content of
\* the last message of the final state.
DiagnoseAlertReturn ==
    /\ prog = "monitor"
    /\ node = "END"
    /\ LET agent_final_message ==
               IF Len(messages) > 0 THEN messages[Len(messages)].content
               ELSE <<"No final message from agent.">>
       IN  response' = [status |-> "success", code |-> 200,
                        agent_diagnosis |-> agent_final_message]
    /\ node' = "returned"
    /\ UNCHANGED <<prog, messages, alert_info, final_result, step, turn_count,
                   last_dispatch, finalizer_calls, variations>>
    /\ metrics' = RunSucceeded(metrics,
                                DiagnosisOutcome(messages[Len(messages)].content,
                                                 final_result[1]))
    /\ UNCHANGED <<prometheus_data, loki_logs, grafana_link, finalizer_input, runs, adapter_call, executor, GROQ_API_KEY, service>>

(***************************************************************************)
(* The console loop of agent-reasoning/main.py.                            *)
(***************************************************************************)
\* Replies of the backend in the console loop; the first is the plain one.
PlainReasoningReply == <<"Thought:", "Action:", "PrometheusQueryTool", "model_rmse_score">>

ReasoningReplyCost(content) == IF content = PlainReasoningReply THEN 0 ELSE 1

ReasoningReplies ==
    { <<"DIAGNOSTIC TERMINE">>,
      <<"Thought:", "Action:", "PrometheusQueryTool", "model_rmse_score", "DIAGNOSTIC TERMINE">>,
      PlainReasoningReply,
      <<"Thought:", "Action:", "PrometheusQueryTool", "model_mape_score", "evidently_data_drift_detected_status">>,
      <<"Thought:", "Action:", "PrometheusQueryTool", "up">>,
      <<"Thought:", "Action:", "GrafanaDashboardTool">>,
      <<"Thought:", "Action:", "GrafanaDashboardTool", "Observation:", "PrometheusQueryTool">>,
      <<"Thought:", "Action:", "RestartService">>,
      <<"Action:", "PrometheusQueryTool", "model_rmse_score">>,
      <<"The model drifted">> }

UnknownActionText == <<"Observation: Outil inconnu ou action non reconnue. Resultat simule : 'OK'.">>

\* The text between "Action:" and "Observation:" (or the end of the reply).
simulated_action(content) ==
    LET action_text_start == Find(content, "Action:") + 1
        action_text_end == IF Find(content, "Observation:") = -1
                           THEN Len(content)
                           ELSE Find(content, "Observation:")
    IN  Slice(content, action_text_start, action_text_end)

\* The simulated observation of an action.
observation(action) ==
    IF Contains(action, "PrometheusQueryTool")
    THEN <<"Observation: Resultat Prometheus:">>
            \o (IF Contains(action, "model_rmse_score")
                THEN <<"model_rmse_score est 28.5 (seuil critique 25.0).">> ELSE <<>>)
            \o (IF Contains(action, "evidently_data_drift_detected_status")
                THEN <<"evidently_data_drift_detected_status est 1 (1 = derive detectee).">>
                ELSE <<>>)
            \o (IF Contains(action, "model_mape_score")
                THEN <<"model_mape_score est 35.2.">> ELSE <<>>)
            \o (IF /\ ~Contains(action, "model_rmse_score")
                   /\ ~Contains(action, "evidently_data_drift_detected_status")
                   /\ ~Contains(action, "model_mape_score")
                THEN <<"Aucun resultat pour cette metrique.">> ELSE <<>>)
    ELSE IF Contains(action, "GrafanaDashboardTool")
    THEN <<"Observation: Resultat Grafana: Dashboard genere avec succes.">>
    ELSE UnknownActionText

\* main up to the loop: the conversation starts with the system prompt and
\* the problem typed by the user.
ReasoningStart ==
    /\ prog = "reasoning"
    /\ node = "idle"
    /\ \E a \in AlertInfos :
          messages' = <<SystemMessage(<<"system_prompt">>), HumanMessage(<<a>>)>>
    /\ node' = "loop"
    /\ UNCHANGED <<prog, alert_info, final_result, step, turn_count, last_dispatch,
                   finalizer_calls, response, variations>>
    /\ UNCHANGED <<prometheus_data, loki_logs, grafana_link, finalizer_input, metrics, runs, adapter_call, executor, GROQ_API_KEY, service>>

\* ReasoningTurn with the two tests of the reply in the other order: the
\* action format is looked for before the terminal marker.
ReasoningTurnActionFirst ==
    /\ prog = "reasoning"
    /\ node = "loop"
    /\ turn_count < MAX_TURNS
    /\ \E content \in ReasoningReplies :
          LET answered == Append(messages, AIMessage(content, <<>>))
          IN  /\ variations + ReasoningReplyCost(content) <= MaxVariations
              /\ variations' = variations + ReasoningReplyCost(content)
              /\ IF Contains(content, "Action:") /\ Contains(content, "Thought:")
                 THEN /\ messages' = Append(answered,
                                       HumanMessage(observation(simulated_action(content))))
                      /\ node' = "loop"
                 ELSE /\ messages' = answered
                      /\ node' = "end"
    /\ turn_count' = turn_count + 1
    /\ UNCHANGED <<prog, alert_info, final_result, step, last_dispatch,
                   finalizer_calls, response>>
    /\ UNCHANGED <<prometheus_data, loki_logs, grafana_link, finalizer_input, metrics, runs, adapter_call, executor, GROQ_API_KEY, service>>

\* One iteration of  for turn in range(MAX_TURNS)  whose backend call answers.
ReasoningTurn ==
    /\ prog = "reasoning"
    /\ node = "loop"
    /\ turn_count < MAX_TURNS
    /\ \E content \in ReasoningReplies :
          LET answered == Append(messages, AIMessage(content, <<>>))
          IN  /\ variations + ReasoningReplyCost(content) <= MaxVariations
              /\ variations' = variations + ReasoningReplyCost(content)
              /\ IF Contains(content, "DIAGNOSTIC TERMINE")
                 THEN /\ messages' = answered
                      /\ node' = "end"
                 ELSE IF Contains(content, "Action:") /\ Contains(content, "Thought:")
                 THEN /\ messages' = Append(answered,
                                       HumanMessage(observation(simulated_action(content))))
                      /\ node' = "loop"
                 ELSE /\ messages' = answered
                      /\ node' = "end"
    /\ turn_count' = turn_count + 1
    /\ UNCHANGED <<prog, alert_info, final_result, step, last_dispatch,
                   finalizer_calls, response>>
    /\ UNCHANGED <<prometheus_data, loki_logs, grafana_link, finalizer_input, metrics, runs, adapter_call, executor, GROQ_API_KEY, service>>

\* ReasoningTurnRaises with an except branch that goes on to the next turn.
ReasoningTurnRaisesContinues ==
    /\ prog = "reasoning"
    /\ node = "loop"
    /\ turn_count < MAX_TURNS
    /\ turn_count' = turn_count + 1
    /\ node' = "loop"
    /\ UNCHANGED <<prog, messages, alert_info, final_result, step, last_dispatch,
                   finalizer_calls, response, variations>>
    /\ UNCHANGED <<prometheus_data, loki_logs, grafana_link, finalizer_input, metrics, runs, adapter_call, executor, GROQ_API_KEY, service>>

\* An iteration whose backend call raises: the except branch logs and breaks.
ReasoningTurnRaises ==
    /\ prog = "reasoning"
    /\ node = "loop"
    /\ turn_count < MAX_TURNS
    /\ turn_count' = turn_count + 1
    /\ node' = "end"
    /\ UNCHANGED <<prog, messages, alert_info, final_result, step, last_dispatch,
                   finalizer_calls, response, variations>>
    /\ UNCHANGED <<prometheus_data, loki_logs, grafana_link, finalizer_input, metrics, runs, adapter_call, executor, GROQ_API_KEY, service>>

\* range(MAX_TURNS) is exhausted: the loop ends and main returns.
ReasoningLoopExhausted ==
    /\ prog = "reasoning"
    /\ node = "loop"
    /\ turn_count >= MAX_TURNS
    /\ node' = "end"
    /\ UNCHANGED <<prog, messages, alert_info, final_result, step, turn_count,
                   last_dispatch, finalizer_calls, response, variations>>
    /\ UNCHANGED <<prometheus_data, loki_logs, grafana_link, finalizer_input, metrics, runs, adapter_call, executor, GROQ_API_KEY, service>>

(***************************************************************************)
(* Specifications.                                                         *)
(***************************************************************************)
Next ==
    \/ DiagnoseAlert
    \/ DiagnoseAlertRaises
    \/ LlmAgentNode
    \/ LlmAgentNodeRaises
    \/ ToolExecutor
    \/ FinalizeDiagnosis
    \/ FinalizeDiagnosisRaises
    \/ GraphRecursionError
    \/ DiagnoseAlertReturn
    \/ ReasoningStart
    \/ ReasoningTurn
    \/ ReasoningTurnRaises
    \/ ReasoningLoopExhausted

Spec == Init /\ [][Next]_vars

\* Every step of a run is a blocking call that returns or raises (the
\* adapters' HTTP requests carry timeout=10), so a run that can take a step
\* eventually takes one.
FairSpec == Spec /\ WF_vars(Next)

\* finalize_diagnosis_node applied once more to the final state of a
\* finished graph run, as a caller holding that state would.
FinalizeDiagnosisAgain ==
    /\ prog = "monitor"
    /\ node = "END"
    /\ final_result # None
    /\ finalizer_calls < MaxFinalizerCalls
    /\ \E final_msg \in FinalContents :
          LET update == finalize_diagnosis_node(messages, final_msg)
          IN  /\ messages' = add_messages(messages, update.messages)
              /\ final_result' = Some(update.final_result)
    /\ finalizer_calls' = finalizer_calls + 1
    /\ UNCHANGED <<prog, node, alert_info, step, turn_count, last_dispatch, response,
                   variations>>
    /\ finalizer_input' = Some(diagnosis_prompt(alert_info, prometheus_data,
                                                 loki_logs, grafana_link))
    /\ UNCHANGED <<prometheus_data, loki_logs, grafana_link, metrics, runs, adapter_call, executor, GROQ_API_KEY, service>>

SpecRefinalize == Init /\ [][Next \/ FinalizeDiagnosisAgain]_vars

(***************************************************************************)
(* Requests served one after the other by the same process.                *)
(***************************************************************************)
\* The initial_state diagnose_alert builds when the service has served other
\* requests before: the history the service last held, then the new alert.
initial_messages_on_old_history(a) ==
    messages \o <<HumanMessage(<<"Diagnose this alert:", a>>)>>

\* The messages of the initial_state diagnose_alert builds.
initial_messages(a) == <<HumanMessage(<<"Diagnose this alert:", a>>)>>

\* diagnose_alert is called again after it has answered: the handler builds
\* its initial_state anew and invokes the graph on it.  What the model
\* records about one request (turn_count, last_dispatch, finalizer_calls,
\* finalizer_input, response) starts anew with it; a further request counts
\* as a departure from the plain run.
DiagnoseAlertAgain ==
    /\ prog = "monitor"
    /\ node \in {"returned", "failed"}
    /\ metrics.AGENT_RUN_COUNT < MaxRequests
    /\ variations < MaxVariations
    /\ variations' = variations + 1
    /\ \E a \in LaterAlertInfos :
          /\ alert_info' = a
          /\ messages' = initial_messages(a)
    /\ final_result' = None
    /\ prometheus_data' = <<>>
    /\ loki_logs' = <<>>
    /\ grafana_link' = <<>>
    /\ step' = 0
    /\ node' = "llm_agent_node"
    /\ metrics' = RequestReceived(metrics)
    /\ turn_count' = 0
    /\ last_dispatch' = <<>>
    /\ finalizer_calls' = 0
    /\ finalizer_input' = None
    /\ response' = NoResponse
    /\ UNCHANGED <<prog, runs, adapter_call, executor, GROQ_API_KEY, service>>

SpecSequential == Init /\ [][Next \/ DiagnoseAlertAgain]_vars

(***************************************************************************)
(* Two requests to POST /diagnose_alert served side by side.  Each has its *)
(* own AgentState (runs[r]); the steps of the two graph runs interleave in *)
(* any order, which covers a server running the handler on one event loop  *)
(* (one request at a time) as well as one with a worker per request.  The  *)
(* metrics are the module's, one set for both.                             *)
(***************************************************************************)
ConcurrentRuns == {1, 2}

ConcurrentAlerts == {"HighRMSE", "DataDrift"}

\* What the backends answer in this specification: the reasoning backend a
\* text or one PrometheusQuery call, Prometheus data or no connection, the
\* Finalizer's call one of two texts.
ConcurrentReplies == {PlainReply, AIMessage(<<>>, <<[name |-> "PrometheusQuery",
                                                  time_range_minutes |-> 5]>>)}

ConcurrentBackendOutcomes == {"data", "unreachable"}

ConcurrentFinalContents == {<<"Critical", "drift">>, <<"All nominal">>}

\* graph_input of a graph compiled with a checkpointer and invoked under one
\* thread id: the input is merged into the state the thread already holds.
graph_input_from_thread(rs, r, initial_state) ==
    [initial_state EXCEPT
        !.messages = add_messages(rs[CHOOSE o \in ConcurrentRuns : o # r].messages, @)]

\* The state a graph run starts from: the graph is compiled without a
\* checkpointer, so invoke starts from its input alone.
graph_input(rs, r, initial_state) == initial_state

InitConcurrent ==
    /\ prog = "monitor"
    /\ node = "idle"
    /\ messages = <<>>
    /\ alert_info = ""
    /\ final_result = None
    /\ step = 0
    /\ turn_count = 0
    /\ last_dispatch = <<>>
    /\ finalizer_calls = 0
    /\ response = NoResponse
    /\ variations = 0
    /\ prometheus_data = <<>>
    /\ loki_logs = <<>>
    /\ grafana_link = <<>>
    /\ finalizer_input = None
    /\ metrics = NoMetrics
    /\ runs = [r \in ConcurrentRuns |-> IdleRun]
    /\ adapter_call = NoAdapterCall
    /\ executor = IdleExecutor
    /\ GROQ_API_KEY = Some("gsk")
    /\ service = IdleService

\* The variables of the single request.
single_run_vars_of_agent ==
    <<prog, node, messages, alert_info, final_result, step, turn_count, last_dispatch,
      finalizer_calls, response, variations, prometheus_data, loki_logs, grafana_link,
      finalizer_input>>

\* What no step of this specification touches.
single_run_vars == <<single_run_vars_of_agent, adapter_call, executor, GROQ_API_KEY, service>>

DiagnoseAlertFor(r) ==
    /\ runs[r].node = "idle"
    /\ \E a \in ConcurrentAlerts :
          runs' = [runs EXCEPT ![r] = graph_input(runs, r, InitialState(a))]
    /\ metrics' = RequestReceived(metrics)
    /\ UNCHANGED single_run_vars

LlmAgentNodeFor(r) ==
    /\ runs[r].node = "llm_agent_node"
    /\ \E result \in ConcurrentReplies :
          /\ result.tool_calls # <<>> => runs[r].turns < MaxConcurrentTurns
          /\ LET msgs == add_messages(runs[r].messages, <<result>>)
             IN  runs' = [runs EXCEPT ![r].messages = msgs,
                                      ![r].node = route_agent_decide(msgs),
                                      ![r].turns = @ + 1,
                                      ![r].produced = Append(@, result)]
    /\ UNCHANGED <<metrics, single_run_vars>>

LlmAgentNodeRaisesFor(r) ==
    /\ runs[r].node = "llm_agent_node"
    /\ runs' = [runs EXCEPT ![r].node = "failed", ![r].response = ErrorResponse]
    /\ metrics' = RunFailed(metrics)
    /\ UNCHANGED single_run_vars

ToolExecutorFor(r) ==
    /\ runs[r].node = "tool_executor"
    /\ LET calls == runs[r].messages[Len(runs[r].messages)].tool_calls
       IN  \E backends \in [1..Len(calls) -> ConcurrentBackendOutcomes] :
              LET observed == [i \in 1..Len(calls) |-> ToolNode(calls, backends)[i].msg]
              IN  runs' = [runs EXCEPT ![r].messages = add_messages(@, observed),
                                       ![r].node = "llm_agent_node",
                                       ![r].produced = @ \o observed]
    /\ UNCHANGED <<metrics, single_run_vars>>

FinalizeDiagnosisFor(r) ==
    /\ runs[r].node = "finalize_diagnosis"
    /\ \E final_msg \in ConcurrentFinalContents :
          LET update == finalize_diagnosis_node(runs[r].messages, final_msg)
          IN  runs' = [runs EXCEPT ![r].messages = add_messages(@, update.messages),
                                   ![r].final_result = Some(update.final_result),
                                   ![r].node = "END",
                                   ![r].produced = Append(@, AIMessage(final_msg, <<>>))]
    /\ UNCHANGED <<metrics, single_run_vars>>

DiagnoseAlertReturnFor(r) ==
    /\ runs[r].node = "END"
    /\ LET agent_final_message == runs[r].messages[Len(runs[r].messages)].content
       IN  /\ runs' = [runs EXCEPT ![r].node = "returned",
                                    ![r].response = [status |-> "success", code |-> 200,
                                                     agent_diagnosis |-> agent_final_message]]
           /\ metrics' = RunSucceeded(metrics,
                                      DiagnosisOutcome(agent_final_message,
                                                       runs[r].final_result[1]))
    /\ UNCHANGED single_run_vars

NextConcurrent ==
    \E r \in ConcurrentRuns :
        \/ DiagnoseAlertFor(r)
        \/ LlmAgentNodeFor(r)
        \/ LlmAgentNodeRaisesFor(r)
        \/ ToolExecutorFor(r)
        \/ FinalizeDiagnosisFor(r)
        \/ DiagnoseAlertReturnFor(r)

SpecConcurrent == InitConcurrent /\ [][NextConcurrent]_vars

(***************************************************************************)
(* The adapters called directly, on any arguments their schemas accept and *)
(* with any behaviour of the backing service.                              *)
(***************************************************************************)
\* Values of step_seconds and of limit a call may carry (any int).
StepSecondsValues == {-1, 0, 30}

LimitValues == {0, 1, 2, 100, 101}

LogLines(n) == [i \in 1..n |-> "log line"]

CallPrometheusQuery ==
    /\ \E tr \in TimeRanges, ss \in StepSecondsValues, b \in BackendOutcomes :
          LET r == PrometheusQuery(tr, ss, b)
          IN  adapter_call' =
                  [name |-> "PrometheusQuery", time_range_minutes |-> tr,
                   step_seconds |-> ss, limit |-> DefaultLimit, backend |-> b,
                   log_lines |-> <<>>, content |-> r.content, http |-> r.http]
    /\ UNCHANGED <<metrics, runs, single_run_vars_of_agent, executor, GROQ_API_KEY, service>>

CallLokiLogSearch ==
    /\ \E tr \in TimeRanges, l \in LimitValues, b \in BackendOutcomes, n \in 0..MaxLogLines :
          /\ b # "data" => n = 0
          /\ LET r == LokiLogSearch(tr, l, b, LogLines(n))
             IN  adapter_call' =
                     [name |-> "LokiLogSearch", time_range_minutes |-> tr,
                      step_seconds |-> DefaultStepSeconds, limit |-> l, backend |-> b,
                      log_lines |-> LogLines(n), content |-> r.content, http |-> r.http]
    /\ UNCHANGED <<metrics, runs, single_run_vars_of_agent, executor, GROQ_API_KEY, service>>

CallGrafanaDashboardLink ==
    /\ \E tr \in TimeRanges, b \in BackendOutcomes :
          LET r == GrafanaDashboardLink(tr)
          IN  adapter_call' =
                  [name |-> "GrafanaDashboardLink", time_range_minutes |-> tr,
                   step_seconds |-> DefaultStepSeconds, limit |-> DefaultLimit,
                   backend |-> b, log_lines |-> <<>>, content |-> r.content, http |-> r.http]
    /\ UNCHANGED <<metrics, runs, single_run_vars_of_agent, executor, GROQ_API_KEY, service>>

NextAdapters ==
    \/ CallPrometheusQuery
    \/ CallLokiLogSearch
    \/ CallGrafanaDashboardLink

SpecAdapters == Init /\ [][NextAdapters]_vars

(***************************************************************************)
(* The tool_executor step, call by call.  ToolNode hands the tool calls of *)
(* the latest message to an executor, which runs each call on a worker     *)
(* thread of its own and collects the results in the order of the calls;   *)
(* the node's update is built when every call has finished.  Between the   *)
(* start and the end of a call its adapter is running (validation, the     *)
(* HTTP request and its error handling).                                   *)
(***************************************************************************)
InFlight == executor.started \ executor.finished

\* The executor picks up tool call i of the latest message.
ToolCallStart(i) ==
    /\ prog = "monitor"
    /\ node = "tool_executor"
    /\ step < RecursionLimit
    /\ i \in 1..Len(messages[Len(messages)].tool_calls)
    /\ i \notin executor.started
    /\ executor' = [executor EXCEPT !.started = @ \cup {i}]
    /\ UNCHANGED <<prog, node, messages, alert_info, final_result, step, turn_count>>
    /\ UNCHANGED <<last_dispatch, finalizer_calls, response, variations>>
    /\ UNCHANGED <<prometheus_data, loki_logs, grafana_link, finalizer_input, metrics, runs, adapter_call, GROQ_API_KEY, service>>

\* Tool call i returns: its backing service has answered with some outcome.
ToolCallEnd(i) ==
    /\ prog = "monitor"
    /\ node = "tool_executor"
    /\ i \in InFlight
    /\ \E b \in BackendOutcomes :
          LET cost == IF b # "data" THEN 1 ELSE 0
          IN  /\ ~ReachesNetwork(messages[Len(messages)].tool_calls[i]) => b = "data"
              /\ variations + cost <= MaxVariations
              /\ variations' = variations + cost
              /\ executor' = [executor EXCEPT !.finished = @ \cup {i}, !.backends[i] = b]
    /\ UNCHANGED <<prog, node, messages, alert_info, final_result, step, turn_count>>
    /\ UNCHANGED <<last_dispatch, finalizer_calls, response>>
    /\ UNCHANGED <<prometheus_data, loki_logs, grafana_link, finalizer_input, metrics, runs, adapter_call, GROQ_API_KEY, service>>

\* Every call has finished: the ToolMessages are appended in the order of
\* the calls and the edge leads back to llm_agent_node.
ToolExecutorJoin ==
    /\ prog = "monitor"
    /\ node = "tool_executor"
    /\ LET calls == messages[Len(messages)].tool_calls
           backends == [i \in 1..Len(calls) |-> executor.backends[i]]
       IN  /\ executor.finished = 1..Len(calls)
           /\ last_dispatch' = ToolNode(calls, backends)
           /\ messages' = add_messages(messages,
                              [i \in 1..Len(calls) |-> last_dispatch'[i].msg])
    /\ executor' = IdleExecutor
    /\ node' = "llm_agent_node"
    /\ step' = step + 1
    /\ UNCHANGED <<prog, alert_info, final_result, turn_count, finalizer_calls, response>>
    /\ UNCHANGED <<variations>>
    /\ UNCHANGED <<prometheus_data, loki_logs, grafana_link, finalizer_input, metrics, runs, adapter_call, GROQ_API_KEY, service>>

NextDispatch ==
    \/ DiagnoseAlert
    \/ DiagnoseAlertRaises
    \/ LlmAgentNode
    \/ LlmAgentNodeRaises
    \/ \E i \in 1..2 : ToolCallStart(i)
    \/ \E i \in 1..2 : ToolCallEnd(i)
    \/ ToolExecutorJoin
    \/ FinalizeDiagnosis
    \/ FinalizeDiagnosisRaises
    \/ GraphRecursionError
    \/ DiagnoseAlertReturn

SpecDispatch == Init /\ [][NextDispatch]_vars

(***************************************************************************)
(* Startup.  Both programs read GROQ_API_KEY before anything else: the     *)
(* agent service at import time, before the application object serves a    *)
(* request, the console program at the top of main.                        *)
(***************************************************************************)
\* Values the environment may hold for the credential.
Credentials == {None, Some(""), Some("gsk")}

\* A test of the credential that lets every value pass.
credential_missing_never(key) == FALSE

\* Python's  not key  for os.getenv's result: unset or empty.
credential_missing(key) == key = None \/ key = Some("")

InitStartup ==
    /\ prog \in {"monitor", "reasoning"}
    /\ node = "startup"
    /\ GROQ_API_KEY \in Credentials
    /\ messages = <<>>
    /\ alert_info = ""
    /\ final_result = None
    /\ step = 0
    /\ turn_count = 0
    /\ last_dispatch = <<>>
    /\ finalizer_calls = 0
    /\ response = NoResponse
    /\ variations = 0
    /\ prometheus_data = <<>>
    /\ loki_logs = <<>>
    /\ grafana_link = <<>>
    /\ finalizer_input = None
    /\ metrics = NoMetrics
    /\ runs = NoRuns
    /\ adapter_call = NoAdapterCall
    /\ executor = IdleExecutor
    /\ service = IdleService

\* The credential is missing: the service logs and calls exit(1), main logs
\* and returns.
StartupExits ==
    /\ node = "startup"
    /\ credential_missing(GROQ_API_KEY)
    /\ node' = "exited"
    /\ UNCHANGED <<prog, messages, alert_info, final_result, step, turn_count, last_dispatch,
                   finalizer_calls, response, variations>>
    /\ UNCHANGED <<prometheus_data, loki_logs, grafana_link, finalizer_input, metrics, runs, adapter_call, executor, GROQ_API_KEY, service>>

\* The credential is there but the client cannot be built (or, in the
\* console program, the system prompt file is not found): same way out.
StartupFails ==
    /\ node = "startup"
    /\ ~credential_missing(GROQ_API_KEY)
    /\ node' = "exited"
    /\ UNCHANGED <<prog, messages, alert_info, final_result, step, turn_count, last_dispatch,
                   finalizer_calls, response, variations>>
    /\ UNCHANGED <<prometheus_data, loki_logs, grafana_link, finalizer_input, metrics, runs, adapter_call, executor, GROQ_API_KEY, service>>

\* The client is built: the service goes on to serve requests, main goes on
\* to read the problem.
StartupCompletes ==
    /\ node = "startup"
    /\ ~credential_missing(GROQ_API_KEY)
    /\ node' = "idle"
    /\ UNCHANGED <<prog, messages, alert_info, final_result, step, turn_count, last_dispatch,
                   finalizer_calls, response, variations>>
    /\ UNCHANGED <<prometheus_data, loki_logs, grafana_link, finalizer_input, metrics, runs, adapter_call, executor, GROQ_API_KEY, service>>

NextStartup ==
    \/ StartupExits
    \/ StartupFails
    \/ StartupCompletes
    \/ Next

SpecStartup == InitStartup /\ [][NextStartup]_vars

(***************************************************************************)
(* The side services: the gateway in front of the agent service, the three *)
(* tool services and the classifier API.  Each handler is a function of    *)
(* its request and of what the service behind it does; `service` keeps the *)
(* latest request with its answer, and the metrics of the API's registry.  *)
(***************************************************************************)
\* What the gateway's POST to the agent service meets: a JSON object in the
\* answer, a JSON array, no connection, no answer within the timeout, an
\* HTTP error status, or a body that is not JSON.
CoreOutcomes == {"json", "json_array", "unreachable", "timeout", "http_error", "not_json"}

\* Payloads the gateway receives: with an alert, or with an empty alerts list.
GatewayPayloads == {"alert", "no_alerts"}

\* The body of the agent service's answer.
CoreJson == <<"status: success", "agent_diagnosis">>

\* The classes of the exception raised in diagnose_alert_route's try block,
\* the exception's own class and its bases.  response.json() raises
\* requests.exceptions.JSONDecodeError, which derives from InvalidJSONError
\* (a RequestException) and from json.JSONDecodeError.
raised_in_route(outcome) ==
    CASE outcome = "json" -> {}
      [] outcome = "json_array" -> {"AttributeError", "Exception"}
      [] outcome = "unreachable" -> {"ConnectionError", "RequestException", "Exception"}
      [] outcome = "timeout" -> {"Timeout", "RequestException", "Exception"}
      [] outcome = "http_error" -> {"HTTPError", "RequestException", "Exception"}
      [] outcome = "not_json" -> {"requests.JSONDecodeError", "InvalidJSONError",
                                  "RequestException", "json.JSONDecodeError",
                                  "ValueError", "Exception"}

\* The gateway's handler: the log line reads alerts[0] before the try block
\* (an empty list raises there, and the middleware answers 500); inside the
\* try block the first except clause that matches decides.
diagnose_alert_route(payload, outcome) ==
    LET exc == raised_in_route(outcome)
    IN  IF payload = "no_alerts" THEN Answer(500, <<>>)
        ELSE IF exc = {} THEN Answer(200, CoreJson)
        ELSE IF "RequestException" \in exc THEN Answer(503, <<>>)
        ELSE IF "json.JSONDecodeError" \in exc THEN Answer(502, <<>>)
        ELSE Answer(500, <<>>)

\* Every variable but `service`.
agent_vars == <<metrics, runs, single_run_vars_of_agent, adapter_call, executor, GROQ_API_KEY>>

\* POST /diagnose_alert on the gateway.
DiagnoseAlertRoute ==
    \E payload \in GatewayPayloads, outcome \in CoreOutcomes :
        /\ service' = [service EXCEPT
                          !.request = [NoServiceRequest EXCEPT
                                          !.endpoint = "gateway/diagnose_alert",
                                          !.text = <<payload>>,
                                          !.backend = outcome],
                          !.response = diagnose_alert_route(payload, outcome)]
        /\ UNCHANGED agent_vars

(***************************************************************************)
(* The tool services.  A tool either returns a text or raises; `raised`    *)
(* holds the classes of the exception (empty when the tool returned).      *)
(***************************************************************************)
Returned(text) == [raised |-> {}, result |-> text]

Raised(classes) == [raised |-> classes, result |-> <<>>]

\* tool_services/prometheus_tool/tool.py: the same body as the agent's
\* adapter; every failure, the validation errors included, is caught inside
\* the tool and returned as a text.
PrometheusQueryTool(time_range_minutes, step_seconds, backend) ==
    Returned(PrometheusQuery(time_range_minutes, step_seconds, backend).content)

\* tool_services/loki_tool/tool.py: likewise.
LokiLogSearchTool(time_range_minutes, limit, backend, log_lines) ==
    Returned(LokiLogSearch(time_range_minutes, limit, backend, log_lines).content)

\* tool_services/grafana_tool/tool.py: a plain function that builds the
\* link and re-raises its ValueError.
GrafanaDashboardLinkTool(time_range_minutes) ==
    IF time_range_minutes <= 0
    THEN Raised({"ValueError", "Exception"})
    ELSE Returned(<<"Grafana Dashboard Link:", "url">>)

\* tool.invoke(args): a tool made by the @tool decorator runs its function;
\* a plain function has no attribute invoke.
invoke(is_tool, outcome) ==
    IF is_tool THEN outcome ELSE Raised({"AttributeError", "Exception"})

\* The try block shared by the three endpoints: the tool's text is answered
\* with status "success", a ValueError with 400, any other exception with 500.
tool_endpoint(outcome) ==
    IF outcome.raised = {} THEN Answer(200, <<"success">> \o outcome.result)
    ELSE IF "ValueError" \in outcome.raised THEN Answer(400, <<>>)
    ELSE Answer(500, <<>>)

query_prometheus_endpoint(time_range_minutes, step_seconds, backend) ==
    tool_endpoint(invoke(TRUE, PrometheusQueryTool(time_range_minutes, step_seconds, backend)))

search_loki_endpoint(time_range_minutes, limit, backend, log_lines) ==
    tool_endpoint(invoke(TRUE, LokiLogSearchTool(time_range_minutes, limit, backend, log_lines)))

generate_grafana_link_endpoint(time_range_minutes) ==
    tool_endpoint(invoke(FALSE, GrafanaDashboardLinkTool(time_range_minutes)))

\* POST /query on the Prometheus tool service.
QueryPrometheusEndpoint ==
    \E tr \in TimeRanges, st \in StepSecondsValues, b \in BackendOutcomes :
        /\ service' = [service EXCEPT
                          !.request = [NoServiceRequest EXCEPT
                                          !.endpoint = "/query",
                                          !.time_range_minutes = tr,
                                          !.step_seconds = st,
                                          !.backend = b],
                          !.response = query_prometheus_endpoint(tr, st, b)]
        /\ UNCHANGED agent_vars

\* POST /search on the Loki tool service.
SearchLokiEndpoint ==
    \E tr \in TimeRanges, l \in LimitValues, b \in BackendOutcomes :
        /\ service' = [service EXCEPT
                          !.request = [NoServiceRequest EXCEPT
                                          !.endpoint = "/search",
                                          !.time_range_minutes = tr,
                                          !.limit = l,
                                          !.backend = b],
                          !.response = search_loki_endpoint(tr, l, b, DefaultLogLines)]
        /\ UNCHANGED agent_vars

\* POST /link on the Grafana tool service.
GenerateGrafanaLinkEndpoint ==
    \E tr \in TimeRanges :
        /\ service' = [service EXCEPT
                          !.request = [NoServiceRequest EXCEPT
                                          !.endpoint = "/link",
                                          !.time_range_minutes = tr],
                          !.response = generate_grafana_link_endpoint(tr)]
        /\ UNCHANGED agent_vars

(***************************************************************************)
(* The classifier API (api/main.py): POST /predict and POST /evaluate.     *)
(***************************************************************************)
\* Texts of an article: empty or not.
ArticleTexts == {<<>>, <<"news">>}

\* What the classifier does with a text: results with a label, an empty
\* result list, or an exception.
ClassifierOutcomes == {"SPORT", "politics", "no_results", "raises"}

\* str(e.status_code)
StatusLabel(code) ==
    CASE code = 200 -> "200"
      [] code = 400 -> "400"
      [] code = 500 -> "500"
      [] OTHER -> "other"

\* predict whose  except Exception  branch leaves status_code as it was.
predict_keeps_label_on_error(text, outcome) ==
    IF text = <<>>
    THEN [response |-> Answer(400, <<>>), status_code |-> StatusLabel(400), classified |-> FALSE]
    ELSE IF outcome = "no_results"
    THEN [response |-> Answer(500, <<>>), status_code |-> StatusLabel(500), classified |-> TRUE]
    ELSE IF outcome = "raises"
    THEN [response |-> Answer(500, <<>>), status_code |-> "200", classified |-> TRUE]
    ELSE [response |-> Answer(200, <<outcome>>), status_code |-> "200", classified |-> TRUE]

\* predict: the answer, the value of status_code when the finally clause
\* runs, and whether the classifier was invoked.  An HTTPException raised in
\* the try block is caught by  except HTTPException , which sets status_code
\* from the exception; any other exception sets "500".
predict(text, outcome) ==
    IF text = <<>>
    THEN [response |-> Answer(400, <<>>), status_code |-> StatusLabel(400), classified |-> FALSE]
    ELSE IF outcome = "no_results"
    THEN [response |-> Answer(500, <<>>), status_code |-> StatusLabel(500), classified |-> TRUE]
    ELSE IF outcome = "raises"
    THEN [response |-> Answer(500, <<>>), status_code |-> "500", classified |-> TRUE]
    ELSE [response |-> Answer(200, <<outcome>>), status_code |-> "200", classified |-> TRUE]

\* Requests the API has counted.
ApiRequests(sv) ==
    LET Sum(e) == sv.api_requests_total[e]["200"] + sv.api_requests_total[e]["400"]
                      + sv.api_requests_total[e]["500"]
    IN  Sum("/predict") + Sum("/evaluate")

\* The finally clause of both handlers: one observation, one increment.
RecordRequest(sv, endpoint, status_code) ==
    [sv EXCEPT !.api_request_duration_seconds[endpoint][status_code] = @ + 1,
               !.api_requests_total[endpoint][status_code] = @ + 1]

\* POST /predict.
Predict ==
    /\ ApiRequests(service) < MaxServiceRequests
    /\ \E text \in ArticleTexts, outcome \in ClassifierOutcomes :
          LET done == predict(text, outcome)
              counted == RecordRequest(service, "/predict", done.status_code)
          IN  service' = [counted EXCEPT
                             !.request = [NoServiceRequest EXCEPT
                                             !.endpoint = "/predict",
                                             !.text = text,
                                             !.backend = outcome],
                             !.response = done.response,
                             !.classifier_calls = @ + (IF done.classified THEN 1 ELSE 0)]
    /\ UNCHANGED agent_vars

\* An evaluation item with what the classifier does with its text: a label
\* or an exception.
EvaluationItems == [true_label : {"Sport"}, outcome : {"SPORT", "politics", "raises"}]

ItemLists == UNION {[1..n -> EvaluationItems] : n \in 0..MaxItems}

\* str.lower() on the labels in use.
lower(label) ==
    CASE label = "Sport" -> "sport"
      [] label = "SPORT" -> "sport"
      [] OTHER -> label

\* The loop over the items that forgets to take a failed item off the count.
RECURSIVE evaluate_loop_keeps_count(_)
evaluate_loop_keeps_count(items) ==
    IF items = <<>>
    THEN [true_labels |-> <<>>, predicted_labels |-> <<>>, total_predictions |-> 0]
    ELSE LET before == evaluate_loop_keeps_count(SubSeq(items, 1, Len(items) - 1))
             item == items[Len(items)]
         IN  IF item.outcome = "raises"
             THEN [before EXCEPT !.total_predictions = @ + 1]
             ELSE [before EXCEPT !.true_labels = Append(@, lower(item.true_label)),
                                 !.predicted_labels = Append(@, lower(item.outcome)),
                                 !.total_predictions = @ + 1]

\* The loop over the items: total_predictions starts at len(items) and loses
\* one for each item whose classification raises; the other items add their
\* labels, lower-cased, to both lists.
RECURSIVE evaluate_loop(_)
evaluate_loop(items) ==
    IF items = <<>>
    THEN [true_labels |-> <<>>, predicted_labels |-> <<>>, total_predictions |-> 0]
    ELSE LET before == evaluate_loop(SubSeq(items, 1, Len(items) - 1))
             item == items[Len(items)]
         IN  IF item.outcome = "raises"
             THEN before
             ELSE [before EXCEPT !.true_labels = Append(@, lower(item.true_label)),
                                 !.predicted_labels = Append(@, lower(item.outcome)),
                                 !.total_predictions = @ + 1]

\* sklearn's accuracy_score as the pair <<correct, total>>.
accuracy_score(true_labels, predicted_labels) ==
    <<Cardinality({i \in 1..Len(true_labels) : true_labels[i] = predicted_labels[i]}),
      Len(true_labels)>>

\* evaluate_model: the service after the request, the finally clause
\* included.
evaluate_model(sv, items) ==
    LET looped == evaluate_loop(items)
        accuracy == accuracy_score(looped.true_labels, looped.predicted_labels)
    IN  IF items = <<>>
        THEN [RecordRequest(sv, "/evaluate", StatusLabel(400)) EXCEPT
                 !.response = Answer(400, <<>>)]
        ELSE IF looped.true_labels = <<>>
        THEN [RecordRequest(sv, "/evaluate", StatusLabel(500)) EXCEPT
                 !.response = Answer(500, <<>>),
                 !.classifier_calls = @ + Len(items)]
        ELSE [RecordRequest(sv, "/evaluate", "200") EXCEPT
                 !.response = [Answer(200, <<"Model evaluation completed">>) EXCEPT
                                  !.accuracy = Some(accuracy),
                                  !.evaluated_items = looped.total_predictions],
                 !.classifier_calls = @ + Len(items),
                 !.model_accuracy_score = Some(accuracy),
                 !.model_f1_score = Some(accuracy),
                 !.true_labels = looped.true_labels,
                 !.predicted_labels = looped.predicted_labels]

\* POST /evaluate.
EvaluateModel ==
    /\ ApiRequests(service) < MaxServiceRequests
    /\ \E items \in ItemLists :
          service' = [evaluate_model(service, items) EXCEPT
                         !.request = [NoServiceRequest EXCEPT
                                         !.endpoint = "/evaluate",
                                         !.items = items]]
    /\ UNCHANGED agent_vars

\* The gateway and the tool services keep nothing from one request to the
\* next; the classifier API keeps its metrics.
NextServices ==
    \/ DiagnoseAlertRoute
    \/ QueryPrometheusEndpoint
    \/ SearchLokiEndpoint
    \/ GenerateGrafanaLinkEndpoint

SpecServices == Init /\ [][NextServices]_vars

NextApi ==
    \/ Predict
    \/ EvaluateModel

SpecApi == Init /\ [][NextApi]_vars

(***************************************************************************)
(* Vocabulary of the properties.                                           *)
(***************************************************************************)
\* TERMINAL: the graph run finished through finalize_diagnosis (and the
\* handler answered), or the console loop ended.
Terminal == node \in {"END", "returned", "end"}

\* The step just taken was an invocation of the deployed agent's Reasoning
\* step that failed: it is counted and appended no assistant entry.
ReasoningFailed ==
    prog = "monitor" /\ turn_count' = turn_count + 1 /\ messages' = messages

\* The step just taken was a run of the Dispatcher (tool_executor).
DispatcherRan == prog = "monitor" /\ node = "tool_executor" /\ step' = step + 1

\* The tool calls the Dispatcher is about to serve.
PendingCalls == messages[Len(messages)].tool_calls

\* MAX_TURNS reasoning steps of the deployed agent have run, each routed to
\* dispatch, and the last dispatch is done: control is back at the head of
\* the loop.
BudgetExhausted ==
    prog = "monitor" /\ turn_count = MAX_TURNS /\ node = "llm_agent_node"

AdapterCalls(dispatch) == Cardinality({i \in DOMAIN dispatch : dispatch[i].adapter})

(***************************************************************************)
(* Properties.                                                             *)
(***************************************************************************)
\* C1: every diagnosis run terminates in TERMINAL: whatever the reasoning
\* backend and the adapters answer, the run eventually reaches TERMINAL.
EveryRunReachesTerminal == <>Terminal

\* C2: in every reachable state the number of Reasoning step invocations
\* made so far is at most MAX_TURNS.
TurnCountWithinBudget == turn_count <= MAX_TURNS

\* C3: budget exhaustion is not an error: once MAX_TURNS reasoning steps
\* have each routed to dispatch, the next step is the Finalizer, which sets
\* a result, and the run does not end with an error outcome.
BudgetExhaustionFinalizes ==
    [][BudgetExhausted => (final_result' # None /\ response'.status # "error")]_vars

\* C4: at most one capability is executed per turn: Routing sends no
\* reasoning output with two capability requests to the Dispatcher, and no
\* Dispatcher invocation makes two adapter calls.
OneCapabilityPerTurn ==
    /\ node = "tool_executor" => Len(PendingCalls) = 1
    /\ AdapterCalls(last_dispatch) <= 1

\* C5: result is set exactly once, by the Finalizer, and is non-empty when
\* the run has reached TERMINAL.
ResultSetOnceAndNonEmpty ==
    /\ final_result # None => finalizer_calls = 1
    /\ (prog = "monitor" /\ Terminal) => final_result \notin {None, Some(<<>>)}

\* C6: when the Reasoning step fails, the Orchestrator goes directly to the
\* Finalizer and the failure does not reach the caller as an error.
ReasoningFailureFinalizes ==
    [][ReasoningFailed => (node' = "finalize_diagnosis" /\ response'.status # "error")]_vars

\* C7: the Finalizer always produces a response: every run of it sets a
\* result, a fallback one when its own backend call fails, and the failure
\* does not reach the caller of diagnose.
FinalizerAlwaysResponds ==
    [][finalizer_calls' = finalizer_calls + 1
          => (final_result' # None /\ response'.status # "error")]_vars

\* C8: Finalizer idempotence: on a state whose result is set, the Finalizer
\* leaves the result and the state as they are and makes no further
\* reasoning-backend call.
FinalizerIdempotent ==
    [][final_result # None
          => (final_result' = final_result /\ messages' = messages
              /\ finalizer_calls' = finalizer_calls)]_vars

\* C9: a capability request whose name matches no registered capability
\* never raises: no adapter is called for it, exactly one observation saying
\* the capability is unrecognized is appended for it, and the loop goes on
\* with the next Reasoning step.
UnknownCapabilityIsObserved ==
    [][/\ DispatcherRan =>
            \A i \in 1..Len(PendingCalls) :
                PendingCalls[i].name \notin deployed_diagnostic_tools =>
                    /\ Len(messages') = Len(messages) + Len(PendingCalls)
                    /\ messages'[Len(messages) + i]
                          = ToolMessage(UnknownToolText(PendingCalls[i].name),
                                        PendingCalls[i].name)
                    /\ ~last_dispatch'[i].adapter
                    /\ node' = "llm_agent_node"
                    /\ response' = response
       /\ (/\ prog = "reasoning"
           /\ Len(messages') > Len(messages)
           /\ messages'[Len(messages) + 1].content = <<"Thought:", "Action:", "RestartService">>)
            => /\ messages' = messages \o
                     <<AIMessage(<<"Thought:", "Action:", "RestartService">>, <<>>),
                       HumanMessage(UnknownActionText)>>
               /\ node' = "loop"
      ]_vars

UnknownCapabilityWitness ==
    /\ prog = "monitor"
    /\ node = "llm_agent_node"
    /\ Len(last_dispatch) = 1
    /\ ~last_dispatch[1].adapter
    /\ messages[Len(messages)]
          = ToolMessage(UnknownToolText("prometheusquery"), "prometheusquery")

\* C10: a registered adapter called with time_range_minutes <= 0 rejects the
\* call without raising and without a network request: exactly one
\* observation holding the rejection text is appended for the call and the
\* run goes on with the next Reasoning step.
NonPositiveTimeRangeIsRejected ==
    [][DispatcherRan =>
          \A i \in 1..Len(PendingCalls) :
              (/\ PendingCalls[i].name \in deployed_diagnostic_tools
               /\ PendingCalls[i].time_range_minutes <= 0) =>
                  /\ Len(messages') = Len(messages) + Len(PendingCalls)
                  /\ messages'[Len(messages) + i]
                        = ToolMessage(ValidationText, PendingCalls[i].name)
                  /\ ~last_dispatch'[i].http
                  /\ node' = "llm_agent_node"
                  /\ response' = response
      ]_vars

NonPositiveTimeRangeWitness ==
    /\ prog = "monitor"
    /\ node = "llm_agent_node"
    /\ Len(last_dispatch) = 1
    /\ last_dispatch[1].adapter
    /\ messages[Len(messages)] = ToolMessage(ValidationText, "GrafanaDashboardLink")
    /\ messages[Len(messages) - 1].tool_calls[1].time_range_minutes = 0

\* The text an adapter returns when its request fails.
FailureText(name, backend) ==
    IF name = "PrometheusQuery"
    THEN <<"Failed to query Prometheus:", backend>>
    ELSE <<"Failed to query Loki:", backend>>

\* C11: when the backing service of an adapter is unreachable, times out or
\* answers with an error status, the adapter call does not raise: exactly
\* one observation holding the failure description is appended for the call
\* and the run goes on with the next Reasoning step.
AdapterFailureIsObserved ==
    [][DispatcherRan =>
          \A i \in 1..Len(PendingCalls) :
              (/\ last_dispatch'[i].http
               /\ last_dispatch'[i].backend \in {"unreachable", "http_error"}) =>
                  /\ Len(messages') = Len(messages) + Len(PendingCalls)
                  /\ messages'[Len(messages) + i]
                        = ToolMessage(FailureText(PendingCalls[i].name,
                                                  last_dispatch'[i].backend),
                                      PendingCalls[i].name)
                  /\ node' = "llm_agent_node"
                  /\ response' = response
      ]_vars

AdapterFailureWitness ==
    /\ prog = "monitor"
    /\ node = "llm_agent_node"
    /\ Len(last_dispatch) = 1
    /\ last_dispatch[1].http
    /\ last_dispatch[1].backend = "http_error"
    /\ messages[Len(messages)]
          = ToolMessage(<<"Failed to query Loki:", "http_error">>, "LokiLogSearch")

\* The history as it was after its first k entries.
HistoryPrefix(k) == SubSeq(messages, 1, k)

\* The latest entry of a history is an assistant entry carrying a non-empty
\* capability request.
CarriesRequest(msgs) ==
    /\ msgs # <<>>
    /\ msgs[Len(msgs)].type = "ai"
    /\ msgs[Len(msgs)].tool_calls # <<>>

\* C12: the Routing Decision depends on the latest entry alone: on every
\* history the run has had (the empty one, and those ending with a human,
\* an assistant or a tool entry) it answers dispatch exactly when the latest
\* entry is an assistant entry with a non-empty capability request and
\* finalize otherwise, and the node the graph is at after a Reasoning step
\* is the one so decided.
RoutingDecidesOnLatestEntry ==
    /\ \A k \in 0..Len(messages) :
          route_agent_decide(HistoryPrefix(k))
              = IF CarriesRequest(HistoryPrefix(k))
                THEN "tool_executor" ELSE "finalize_diagnosis"
    /\ (prog = "monitor" /\ node = "tool_executor") => CarriesRequest(messages)
    /\ (prog = "monitor" /\ node = "finalize_diagnosis") =>
          /\ messages[Len(messages)].type = "ai"
          /\ ~CarriesRequest(messages)

\* Routing has decided both ways in one run: a turn was dispatched, and the
\* next one is on its way to the Finalizer.
RoutingWitness ==
    /\ prog = "monitor"
    /\ node = "finalize_diagnosis"
    /\ turn_count = 2
    /\ messages[Len(messages) - 1].type = "tool"
    /\ messages[Len(messages) - 2].tool_calls # <<>>

\* The first reply of the reasoning backend in this run was plain text with
\* no capability request.
FirstReplyIsPlain ==
    /\ prog = "monitor"
    /\ Len(messages) >= 2
    /\ messages[2].type = "ai"
    /\ messages[2].tool_calls = <<>>

\* The console loop's first reply carried neither an Action nor the
\* end-of-diagnosis marker.
FirstConsoleReplyIsPlain ==
    /\ prog = "reasoning"
    /\ Len(messages) >= 3
    /\ messages[3].type = "ai"
    /\ ~Contains(messages[3].content, "Action:")
    /\ ~Contains(messages[3].content, "DIAGNOSTIC TERMINE")

\* C13: when the reasoning backend answers the first turn with plain text
\* and no capability request, that turn routes to finalize: one Reasoning
\* step has run, the run holds no observation and made no Dispatcher or
\* adapter call, and the Finalizer is next or has run.  The console loop
\* leaves its loop after that one reply, with no observation.
PlainReplyRoutesToFinalize ==
    /\ FirstReplyIsPlain =>
          /\ turn_count = 1
          /\ last_dispatch = <<>>
          /\ \A i \in 1..Len(messages) : messages[i].type # "tool"
          /\ node = "finalize_diagnosis" \/ finalizer_calls = 1
    /\ FirstConsoleReplyIsPlain =>
          /\ turn_count = 1
          /\ Len(messages) = 3
          /\ node = "end"

PlainReplyWitness ==
    /\ FirstReplyIsPlain
    /\ node = "returned"
    /\ finalizer_calls = 1
    /\ response.status = "success"

\* The moves of control the workflow's edges allow: the entry point is
\* llm_agent_node (REASONING), its conditional edge leads to tool_executor
\* (DISPATCH) or finalize_diagnosis (FINALIZE), tool_executor leads back,
\* finalize_diagnosis is the finish point, and the handler then answers.
OrchestratorTransitions ==
    {<<"idle", "llm_agent_node">>,
     <<"llm_agent_node", "tool_executor">>,
     <<"llm_agent_node", "finalize_diagnosis">>,
     <<"tool_executor", "llm_agent_node">>,
     <<"finalize_diagnosis", "END">>,
     <<"END", "returned">>}

\* The run has ended: diagnose_alert has answered its caller.
RunEnded == prog = "monitor" /\ response.status # "none"

\* C14: the Orchestrator only moves REASONING -> DISPATCH, REASONING ->
\* FINALIZE, DISPATCH -> REASONING and FINALIZE -> TERMINAL, starting in
\* REASONING, and no run ends (answers its caller) without having passed
\* through FINALIZE.
OnlyOrchestratorTransitions ==
    [][prog = "monitor" =>
          /\ node' # node => <<node, node'>> \in OrchestratorTransitions
          /\ RunEnded' => finalizer_calls' >= 1
      ]_vars

Range(seq) == {seq[i] : i \in 1..Len(seq)}

\* C15: for any interleaving of two diagnosis requests, the history of each
\* run holds only entries that run produced (its initial entry, the
\* replies to its own backend calls, its own observations), starting with
\* its own initial entry, and every human entry in it carries its own
\* alert: no entry of one run appears in the other's state.
NoHistoryLeakBetweenRuns ==
    \A r \in ConcurrentRuns :
        /\ Range(runs[r].messages) \subseteq Range(runs[r].produced)
        /\ runs[r].messages # <<>> => runs[r].messages[1] = runs[r].produced[1]
        /\ \A i \in 1..Len(runs[r].messages) :
              runs[r].messages[i].type = "human" =>
                  runs[r].messages[i].content
                      = <<"Diagnose this alert:", runs[r].alert_info>>

\* Both runs are finished, each on another alert and each with an
\* observation in its history.
NoHistoryLeakWitness ==
    /\ runs[1].node = "returned"
    /\ runs[2].node = "returned"
    /\ runs[1].alert_info # runs[2].alert_info
    /\ \E i \in 1..Len(runs[1].messages) : runs[1].messages[i].type = "tool"
    /\ \E i \in 1..Len(runs[2].messages) : runs[2].messages[i].type = "tool"

\* C16 as stated: no run mutates any state shared between the runs.
NoSharedStateMutated == [][metrics' = metrics]_vars

\* No counter of m is above its value in n.
MetricsAtMost(m, n) ==
    /\ m.API_REQUEST_COUNT <= n.API_REQUEST_COUNT
    /\ m.API_REQUEST_LATENCY_SECONDS <= n.API_REQUEST_LATENCY_SECONDS
    /\ m.AGENT_RUN_COUNT <= n.AGENT_RUN_COUNT
    /\ m.AGENT_ERROR_COUNT <= n.AGENT_ERROR_COUNT
    /\ \A o \in DiagnosisOutcomes : m.AGENT_DIAGNOSIS_COUNT[o] <= n.AGENT_DIAGNOSIS_COUNT[o]

\* The step just taken was diagnose_alert receiving or answering a request.
HandlerStep(r) ==
    /\ runs'[r].node # runs[r].node
    /\ runs[r].node = "idle" \/ runs'[r].node \in {"returned", "failed"}

\* C16 (amended): the metric counters of the service are shared by the runs
\* and every run changes them: a step of a run changes the AgentState of
\* that run alone, and changes the shared counters only when diagnose_alert
\* receives or answers the request, and then only upwards.
OnlyMetricsAreSharedAndGrow ==
    [][/\ \E r \in ConcurrentRuns : \A o \in ConcurrentRuns \ {r} : runs'[o] = runs[o]
       /\ MetricsAtMost(metrics, metrics')
       /\ metrics' # metrics <=> \E r \in ConcurrentRuns : HandlerStep(r)
      ]_vars

\* Both runs have written to the shared counters: one was answered with a
\* diagnosis, the other failed.
SharedMetricsWitness ==
    /\ metrics.AGENT_RUN_COUNT = 2
    /\ metrics.AGENT_DIAGNOSIS_COUNT["failed"] = 1
    /\ metrics.AGENT_DIAGNOSIS_COUNT["escalated"] = 1
    /\ runs[1].node = "returned"
    /\ runs[2].node = "failed"

IsPrefix(s, t) == Len(s) <= Len(t) /\ SubSeq(t, 1, Len(s)) = s

\* C17: history is append-only: after every step of a run (Reasoning,
\* Dispatcher, Finalizer) the previous history is a prefix of the new one,
\* so no entry is removed, reordered or rewritten.
HistoryIsAppendOnly == [][IsPrefix(messages, messages')]_vars

\* The three kinds of step have each extended the history of one run.
AppendOnlyWitness ==
    /\ prog = "monitor"
    /\ node = "END"
    /\ turn_count = 2
    /\ Len(last_dispatch) = 1
    /\ Len(messages) > 4

\* The step just taken was a Reasoning step of the deployed agent that
\* returned a reply.
ReasoningRan ==
    prog = "monitor" /\ node = "llm_agent_node" /\ step' = step + 1

\* The step just taken was a run of the Finalizer that returned.
FinalizerRan ==
    prog = "monitor" /\ finalizer_calls' = finalizer_calls + 1 /\ final_result' # None

\* C18: the history is changed only by the Reasoning step, which appends
\* exactly one assistant entry per invocation, and by the Dispatcher, which
\* appends exactly one observation entry per invocation (taken here for
\* the invocations that serve one capability request; two requests in one
\* reply are the matter of C4); the Finalizer sets the result and adds no
\* copy of an earlier entry to the history.
OneEntryPerStepAndNoCopy ==
    [][/\ ReasoningRan =>
            /\ Len(messages') = Len(messages) + 1
            /\ messages'[Len(messages')].type = "ai"
       /\ (DispatcherRan /\ Len(PendingCalls) = 1) =>
            /\ Len(messages') = Len(messages) + 1
            /\ messages'[Len(messages')].type = "tool"
       /\ FinalizerRan =>
            /\ final_result' = Some(messages'[Len(messages')].content)
            /\ messages' \in {messages, Append(messages, messages'[Len(messages')])}
      ]_vars

\* Every token of text occurs in prompt.
Includes(prompt, text) == \A k \in 1..Len(text) : Contains(prompt, text[k])

\* C19: the Finalizer makes exactly one reasoning-backend call per run, and
\* the input of that call contains the alert and every observation entry
\* the Dispatcher appended during the run.
FinalizerInputHoldsObservations ==
    /\ finalizer_calls <= 1
    /\ (prog = "monitor" /\ final_result # None) => finalizer_calls = 1
    /\ finalizer_input # None =>
          /\ Contains(finalizer_input[1], alert_info)
          /\ \A i \in 1..Len(messages) :
                messages[i].type = "tool" => Includes(finalizer_input[1], messages[i].content)

\* C20: for every run that reaches TERMINAL, the diagnosis diagnose_alert
\* returns to its caller is the result the Finalizer set: the content of
\* the last history entry, which the handler returns, equals final_result.
DiagnosisEqualsFinalResult ==
    (prog = "monitor" /\ response.status = "success") =>
        /\ final_result = Some(response.agent_diagnosis)
        /\ messages[Len(messages)].content = response.agent_diagnosis

\* A run with one dispatch was answered with the Finalizer's text.
DiagnosisReturnedWitness ==
    /\ prog = "monitor"
    /\ node = "returned"
    /\ turn_count = 2
    /\ response = [status |-> "success", code |-> 200,
                   agent_diagnosis |-> <<"Critical", "drift">>]

\* The step just taken answered the caller with an error.
AnsweredWithError == response.status # "error" /\ response'.status = "error"

\* C21: the only failure a caller of diagnose_alert can observe is total
\* pipeline failure: an error answer is HTTP 500 without a diagnosis text,
\* and it is never the answer to a failure of the Reasoning step or of an
\* adapter.
OnlyPipelineFailureIsVisible ==
    [][(prog = "monitor" /\ AnsweredWithError) =>
          /\ response'.code = 500
          /\ response'.agent_diagnosis = <<>>
          /\ ~ReasoningFailed
          /\ ~DispatcherRan
      ]_vars

\* The step just taken was diagnose_alert building the state of a request,
\* or the console program building its conversation.
RequestStarted ==
    \/ /\ prog = "monitor"
       /\ metrics'.AGENT_RUN_COUNT = metrics.AGENT_RUN_COUNT + 1
       /\ node' = "llm_agent_node"
    \/ prog = "reasoning" /\ node = "idle" /\ node' = "loop"

\* C22 as stated: every diagnosis request starts from history =
\* [system-prompt, alert_summary], turn_count = 0 and an empty result.
RequestStartsFromPromptAndAlert ==
    [][RequestStarted =>
          /\ Len(messages') = 2
          /\ messages'[1].type = "system"
          /\ messages'[2].type = "human"
          /\ turn_count' = 0
          /\ final_result' = None
      ]_vars

\* C22 (amended): every request to the deployed agent starts from a fresh
\* state whose history is the one human entry describing the alert (the
\* system prompt is not part of the history), with no result, no evidence
\* and no turn taken, whatever requests were served before; the console
\* program starts from [system prompt, problem].
RequestStartsFromFreshState ==
    [][RequestStarted =>
          /\ turn_count' = 0
          /\ final_result' = None
          /\ prog = "monitor" =>
                /\ messages' = <<HumanMessage(<<"Diagnose this alert:", alert_info'>>)>>
                /\ prometheus_data' = <<>> /\ loki_logs' = <<>> /\ grafana_link' = <<>>
                /\ step' = 0
                /\ node' = "llm_agent_node"
          /\ prog = "reasoning" =>
                /\ Len(messages') = 2
                /\ messages'[1] = SystemMessage(<<"system_prompt">>)
                /\ messages'[2].type = "human"
      ]_vars

\* A second request is being served after a first one that ran the loop
\* and was answered.
SecondRequestWitness ==
    /\ prog = "monitor"
    /\ metrics.AGENT_RUN_COUNT = 2
    /\ metrics.AGENT_DIAGNOSIS_COUNT["escalated"] = 1
    /\ alert_info = "DataDrift"
    /\ node = "llm_agent_node"
    /\ Len(messages) = 1

\* The adapter called rejected the call: it answered with its error text
\* and sent no HTTP request.
Rejected ==
    /\ adapter_call.content[1] = "An unexpected error occurred:"
    /\ ~adapter_call.http

\* C23 as stated: for every numeric argument of every adapter an
\* out-of-range value is rejected before any network call:
\* time_range_minutes <= 0, step_seconds <= 0 (metrics query) and a limit
\* out of range (log query).
OutOfRangeArgumentsRejected ==
    /\ (adapter_call.name # "" /\ adapter_call.time_range_minutes <= 0) => Rejected
    /\ (adapter_call.name = "PrometheusQuery" /\ adapter_call.step_seconds <= 0) => Rejected
    /\ (/\ adapter_call.name = "LokiLogSearch"
        /\ (adapter_call.limit <= 0 \/ adapter_call.limit > 100)) => Rejected

\* C23 (amended): time_range_minutes <= 0 (every adapter) and step_seconds
\* <= 0 (metrics query) are rejected with no HTTP request; a limit out of
\* range is not rejected: with a positive time range the log query is sent
\* to Loki and answered as with limit 10.
OutOfRangeLimitIsReplaced ==
    /\ (adapter_call.name # "" /\ adapter_call.time_range_minutes <= 0) =>
          Rejected /\ adapter_call.content = ValidationText
    /\ (/\ adapter_call.name = "PrometheusQuery"
        /\ adapter_call.time_range_minutes > 0
        /\ adapter_call.step_seconds <= 0) =>
          Rejected /\ adapter_call.content = StepValidationText
    /\ (/\ adapter_call.name = "LokiLogSearch"
        /\ adapter_call.time_range_minutes > 0
        /\ (adapter_call.limit <= 0 \/ adapter_call.limit > 100)) =>
          /\ adapter_call.http
          /\ adapter_call.content
                = LokiLogSearch(adapter_call.time_range_minutes, 10,
                                adapter_call.backend, adapter_call.log_lines).content

\* The metrics query was called with a positive time range and step 0.
StepRejectedWitness ==
    /\ adapter_call.name = "PrometheusQuery"
    /\ adapter_call.time_range_minutes = 5
    /\ adapter_call.step_seconds = 0
    /\ adapter_call.backend = "data"
    /\ Rejected

\* The log query answered with formatted lines.
LogLinesReturned ==
    /\ adapter_call.name = "LokiLogSearch"
    /\ adapter_call.content # <<>>
    /\ adapter_call.content[1] = "Loki log search results:"

\* The number of formatted lines in the text returned.
ReturnedLineCount == Len(adapter_call.content) - 1

Min(a, b) == IF a < b THEN a ELSE b

DashboardLinkNeedsNoNetwork ==
    adapter_call.name = "GrafanaDashboardLink" =>
        /\ ~adapter_call.http
        /\ adapter_call.time_range_minutes > 0 =>
              adapter_call.content = <<"Grafana Dashboard Link:", "url">>
        /\ adapter_call.time_range_minutes <= 0 =>
              adapter_call.content = ValidationText

\* A link was built while the backing services could not be reached.
DashboardLinkWitness ==
    /\ adapter_call.name = "GrafanaDashboardLink"
    /\ adapter_call.time_range_minutes = 5
    /\ adapter_call.backend = "unreachable"
    /\ adapter_call.content = <<"Grafana Dashboard Link:", "url">>

\* The observations of the scenario: the metrics query answered with the
\* series of the breached metric, the log query found no matching line.
BreachedMetricObservation ==
    ToolMessage(<<"Prometheus query results:", "series">>, "PrometheusQuery")

NoMatchingLogsObservation ==
    ToolMessage(<<"Loki log search: No logs found for the given query and time range.">>,
                "LokiLogSearch")

BreachedMetricScenario ==
    /\ prog = "monitor"
    /\ \E i \in 1..Len(messages) : messages[i] = BreachedMetricObservation
    /\ \E i \in 1..Len(messages) : messages[i] = NoMatchingLogsObservation

\* C26: when the metrics query returns the breached rmse value and the log
\* query returns no matching lines, the run that has reached TERMINAL did
\* so within the turn budget and its result is derived from the
\* breached-metric observation: the Finalizer's input holds it.
BreachedMetricReachesResult ==
    (BreachedMetricScenario /\ node \in {"END", "returned"}) =>
        /\ turn_count <= MAX_TURNS
        /\ final_result # None
        /\ Includes(finalizer_input[1], BreachedMetricObservation.content)

\* The step just taken was a step of a run under way (Reasoning with its
\* Routing, Dispatcher, Finalizer, or the handler's answer), as opposed to
\* the creation of the state.
RunStep == node # "idle" /\ ~RequestStarted

\* C27: alert_info is set at creation and is left unchanged by every step
\* of the run: Reasoning, Routing, Dispatcher and Finalizer never modify it.
AlertInfoUnchanged ==
    [][/\ RunStep => alert_info' = alert_info
       /\ (prog = "monitor" /\ RequestStarted) => alert_info' \in LaterAlertInfos
      ]_vars

\* A run went through Reasoning, Dispatcher and Finalizer and still holds
\* the alert it was created with.
AlertInfoWitness ==
    /\ prog = "monitor"
    /\ node = "returned"
    /\ Len(last_dispatch) = 1
    /\ final_result # None
    /\ alert_info = "HighRMSE"
    /\ messages[1].content = <<"Diagnose this alert:", "HighRMSE">>

\* The entry at position i of the history is an observation.
IsObservation(i) ==
    IF prog = "monitor" THEN messages[i].type = "tool"
    ELSE i > 2 /\ messages[i].type = "human"

\* The entry at position i is an assistant entry asking for a capability.
IsRequest(i) ==
    /\ messages[i].type = "ai"
    /\ IF prog = "monitor" THEN messages[i].tool_calls # <<>>
       ELSE /\ Contains(messages[i].content, "Action:")
            /\ Contains(messages[i].content, "Thought:")
            /\ ~Contains(messages[i].content, "DIAGNOSTIC TERMINE")

\* C28: at most one capability request is outstanding at any point: while
\* the loop runs (before the Finalizer), each observation entry is
\* immediately preceded by the assistant entry that requested it, every
\* assistant entry with a capability request is followed by exactly one
\* observation before the next Reasoning step, and after the initial
\* entries the history alternates assistant / observation.
OneOutstandingRequest ==
    final_result = None =>
        \A i \in 1..Len(messages) :
            /\ IsObservation(i) => i > 1 /\ IsRequest(i - 1)
            /\ (IsRequest(i) /\ i + 1 <= Len(messages)) => IsObservation(i + 1)
            /\ (IsRequest(i) /\ i + 2 <= Len(messages)) => messages[i + 2].type = "ai"
            /\ (messages[i].type = "ai" /\ i + 1 <= Len(messages)) => IsObservation(i + 1)

\* The sum of the outcome counters of AGENT_DIAGNOSIS_COUNT.
DiagnosisCountTotal ==
    metrics.AGENT_DIAGNOSIS_COUNT["escalated"]
        + metrics.AGENT_DIAGNOSIS_COUNT["solution_proposed"]
        + metrics.AGENT_DIAGNOSIS_COUNT["info"]
        + metrics.AGENT_DIAGNOSIS_COUNT["failed"]

\* Every request received so far has been answered.
RequestsCompleted == prog = "monitor" /\ node \in {"idle", "returned", "failed"}

\* C30: every request to diagnose_alert increments AGENT_RUN_COUNT once and
\* exactly one outcome label of AGENT_DIAGNOSIS_COUNT, failed if and only if
\* the run raised, so that after any sequence of completed requests, for
\* every alert payload, the outcome counters sum to the run counter.
OutcomesSumToRuns ==
    /\ RequestsCompleted => DiagnosisCountTotal = metrics.AGENT_RUN_COUNT
    /\ (prog = "monitor" /\ node = "failed") => metrics.AGENT_DIAGNOSIS_COUNT["failed"] >= 1


\* C29: within one run the steps are strictly sequential: at most one
\* backend or adapter call is in flight at any time, a step completes before
\* the next one starts, and no two adapter calls of the same run overlap.
\* Adapter calls are in flight only inside tool_executor, and the node is
\* left only when all of them have finished; the claim is that there is
\* never more than one of them.
StepsStrictlySequential ==
    /\ Cardinality(InFlight) <= 1
    /\ InFlight # {} => node = "tool_executor"
    /\ node # "tool_executor" => executor = IdleExecutor

\* The step just taken was the service receiving a request: between two
\* requests nothing else happens in the service.
RequestReceivedStep == RequestsCompleted /\ vars' # vars

\* The step just taken ended with the service answering a request.
RequestAnsweredStep == response.status = "none" /\ response'.status # "none"

\* AGENT_ERROR_COUNT increments made by the middleware: diagnose_alert's
\* except branch increments AGENT_ERROR_COUNT and the failed outcome together,
\* every other increment is the middleware's.
MiddlewareErrors(m) == m.AGENT_ERROR_COUNT - m.AGENT_DIAGNOSIS_COUNT["failed"]

\* C31: the middleware of the agent service increments API_REQUEST_COUNT
\* exactly once and records exactly one latency observation for every
\* request, whether the handler returns or raises, and it increments
\* AGENT_ERROR_COUNT only when the handler raises.
MiddlewareCountsEachRequestOnce ==
    [][prog = "monitor" =>
          /\ metrics'.API_REQUEST_COUNT =
                 metrics.API_REQUEST_COUNT + (IF RequestReceivedStep THEN 1 ELSE 0)
          /\ metrics'.API_REQUEST_LATENCY_SECONDS =
                 metrics.API_REQUEST_LATENCY_SECONDS + (IF RequestAnsweredStep THEN 1 ELSE 0)
          /\ MiddlewareErrors(metrics') # MiddlewareErrors(metrics) =>
                 /\ MiddlewareErrors(metrics') = MiddlewareErrors(metrics) + 1
                 /\ AnsweredWithError
      ]_vars

\* One request whose handler raised past the middleware and one whose
\* handler returned have both been answered.
MiddlewareWitness ==
    /\ prog = "monitor"
    /\ response.status = "success"
    /\ metrics.API_REQUEST_COUNT = 2
    /\ metrics.API_REQUEST_LATENCY_SECONDS = 2
    /\ MiddlewareErrors(metrics) = 1

\* The step just taken was a turn of the console loop whose backend call
\* answered with the terminal marker.
TerminalMarkerReply ==
    /\ prog = "reasoning"
    /\ node = "loop"
    /\ Len(messages') > Len(messages)
    /\ messages'[Len(messages) + 1].type = "ai"
    /\ Contains(messages'[Len(messages) + 1].content, "DIAGNOSTIC TERMINE")

\* C34: in the console loop a backend reply containing the terminal marker
\* "DIAGNOSTIC TERMINE" ends the loop in that turn: the reply is appended, no
\* action is executed, no observation is appended and no further backend
\* call is made, even when the reply also contains "Thought:" and "Action:".
TerminalMarkerEndsLoop ==
    [][/\ TerminalMarkerReply =>
             /\ messages' = Append(messages, messages'[Len(messages) + 1])
             /\ node' = "end"
       /\ (prog = "reasoning" /\ node = "end") =>
             /\ messages' = messages
             /\ turn_count' = turn_count
      ]_vars

\* The loop has ended on a first reply that holds the terminal marker next
\* to "Thought:" and "Action:".
TerminalMarkerWitness ==
    /\ prog = "reasoning"
    /\ node = "end"
    /\ Len(messages) = 3
    /\ Contains(messages[3].content, "DIAGNOSTIC TERMINE")
    /\ Contains(messages[3].content, "Thought:")
    /\ Contains(messages[3].content, "Action:")

\* The step just taken was a turn of the console loop.
ConsoleTurn == prog = "reasoning" /\ turn_count' = turn_count + 1

\* The backend call of the turn just taken answered: its reply is the next
\* entry of the conversation.  A turn without it is one whose call raised.
BackendAnswered ==
    /\ Len(messages') > Len(messages)
    /\ messages'[Len(messages) + 1].type = "ai"

\* C35: in the console loop, if the backend call of a turn raises, the loop
\* ends at once and the conversation is left exactly as it was before that
\* turn, and no further backend call is made.
FailedTurnEndsLoopUntouched ==
    [][/\ (ConsoleTurn /\ ~BackendAnswered) =>
             /\ messages' = messages
             /\ node' = "end"
       /\ (prog = "reasoning" /\ node = "end") => turn_count' = turn_count
      ]_vars

\* The second turn's backend call raised after a first turn that executed an
\* action: the conversation ends with the first turn's observation.
FailedTurnWitness ==
    /\ prog = "reasoning"
    /\ node = "end"
    /\ turn_count = 2
    /\ Len(messages) = 4
    /\ messages[3].type = "ai"
    /\ messages[4].type = "human"

\* C38: when the reasoning-backend credential GROQ_API_KEY is missing at
\* startup (unset, or set to the empty text), no diagnosis run ever starts
\* and no reasoning-backend call is ever made: the agent service exits
\* before serving any request and the console program returns before its
\* loop.
NoRunWithoutCredential ==
    GROQ_API_KEY \in {None, Some("")} =>
        /\ node \in {"startup", "exited"}
        /\ messages = <<>>
        /\ turn_count = 0
        /\ finalizer_calls = 0
        /\ metrics = NoMetrics
        /\ response = NoResponse

\* The agent service has exited at startup for want of the credential.
MissingCredentialWitness ==
    /\ prog = "monitor"
    /\ node = "exited"
    /\ GROQ_API_KEY = None

\* The latest request of the side services went to this endpoint.
ServedBy(endpoint) == service.request.endpoint = endpoint

\* C32: the gateway's diagnose_alert_route returns the agent service's JSON
\* answer unchanged on success and maps failures by kind: agent service
\* unreachable, timed out or answering with an HTTP error status -> 503; a
\* body that is not JSON -> 502; any other exception -> 500.
GatewayMapsFailuresByKind ==
    ServedBy("gateway/diagnose_alert") =>
        LET outcome == service.request.backend
            answer == service.response
        IN  IF service.request.text = <<"no_alerts">> THEN answer.code = 500
            ELSE /\ outcome = "json" => answer.code = 200 /\ answer.body = CoreJson
                 /\ outcome \in {"unreachable", "timeout", "http_error"} => answer.code = 503
                 /\ outcome = "not_json" => answer.code = 502
                 /\ outcome = "json_array" => answer.code = 500

\* The tool of the latest tool service request produced a real result: its
\* arguments were valid and its backing service answered.
RealToolResult ==
    /\ service.request.time_range_minutes > 0
    /\ ServedBy("/query") => service.request.step_seconds > 0
    /\ ~ServedBy("/link") => service.request.backend \in {"data", "empty"}

\* The latest tool service request fails the validation of its tool.
ToolValidationFails ==
    \/ service.request.time_range_minutes <= 0
    \/ ServedBy("/query") /\ service.request.step_seconds <= 0

\* C33: each tool service endpoint (POST /query, POST /search, POST /link)
\* answers a validation failure of its tool (time_range_minutes <= 0,
\* step_seconds <= 0) with HTTP 400, any other tool failure with HTTP 500,
\* and answers 200 with status "success" only when the tool produced a real
\* result (for /link: for every input with time_range_minutes > 0).
ToolEndpointsMapFailures ==
    (ServedBy("/query") \/ ServedBy("/search") \/ ServedBy("/link")) =>
        /\ ToolValidationFails => service.response.code = 400
        /\ (~ToolValidationFails /\ ~RealToolResult) => service.response.code = 500
        /\ service.response.code = 200 => RealToolResult
        /\ (ServedBy("/link") /\ service.request.time_range_minutes > 0) =>
               service.response.code = 200

\* The step just taken was the classifier API serving a request to this
\* endpoint.
ApiStep(endpoint) == service'.request.endpoint = endpoint /\ service' # service

\* C36: for every request to POST /predict, api_requests_total and
\* api_request_duration_seconds are each updated exactly once, with a
\* status_code label equal to the status of the response actually returned
\* (200, 400 or 500); an empty text is answered with 400 without invoking
\* the classifier.
PredictCountsItsAnswer ==
    [][ApiStep("/predict") =>
          LET label == StatusLabel(service'.response.code)
          IN  /\ service'.response.code \in {200, 400, 500}
              /\ service'.api_requests_total =
                     [service.api_requests_total EXCEPT !["/predict"][label] = @ + 1]
              /\ service'.api_request_duration_seconds =
                     [service.api_request_duration_seconds EXCEPT !["/predict"][label] = @ + 1]
              /\ service'.request.text = <<>> =>
                     /\ service'.response.code = 400
                     /\ service'.classifier_calls = service.classifier_calls
      ]_vars

\* A request whose classification raised has been answered and counted
\* after a request with an empty text.
PredictWitness ==
    /\ ServedBy("/predict")
    /\ service.request.backend = "raises"
    /\ service.response.code = 500
    /\ service.api_requests_total["/predict"]["500"] = 1
    /\ service.api_requests_total["/predict"]["400"] = 1
    /\ service.classifier_calls = 1

\* Items of the latest evaluation request whose classification succeeded.
SucceededItems(items) == Cardinality({i \in 1..Len(items) : items[i].outcome # "raises"})

\* C37: POST /evaluate reports evaluated_items equal to the number of items
\* whose classification succeeded (items that raise are skipped, keeping
\* true_labels and predicted_labels the same length); an empty item list is
\* answered with 400, and a list where every classification fails is
\* answered with 500 without updating any model-score gauge.
EvaluateCountsSucceededItems ==
    [][ApiStep("/evaluate") =>
          LET items == service'.request.items
          IN  /\ items = <<>> => service'.response.code = 400
              /\ (items # <<>> /\ SucceededItems(items) = 0) =>
                     /\ service'.response.code = 500
                     /\ service'.model_accuracy_score = service.model_accuracy_score
                     /\ service'.model_f1_score = service.model_f1_score
              /\ SucceededItems(items) > 0 =>
                     /\ service'.response.code = 200
                     /\ service'.response.evaluated_items = SucceededItems(items)
                     /\ Len(service'.true_labels) = SucceededItems(items)
                     /\ Len(service'.predicted_labels) = SucceededItems(items)
      ]_vars

\* An evaluation of two items, one of which raised, has been answered.
EvaluateWitness ==
    /\ ServedBy("/evaluate")
    /\ Len(service.request.items) = 2
    /\ service.response.code = 200
    /\ service.response.evaluated_items = 1
====
